---- MODULE Spec2Model ----
(***************************************************************************)
(* Battle viewer: the turn/action Orchestrator (BattleOrchestrator), the   *)
(* Character entity (BattleCharacter) it commands and the arena's          *)
(* character map.                                                          *)
(*                                                                         *)
(* The program runs on one event loop.  A step of the model is one         *)
(* handler: a public call, a timer callback, a renderer callback (last     *)
(* frame of a move, end of a one-shot animation) or the continuation of    *)
(* executeNextAction after its `await this.executeAction(...)`.  The       *)
(* continuations inside one executeAction (character.move..., cache        *)
(* update, target.hit()) run in the step of the renderer callback that     *)
(* releases them.                                                          *)
(***************************************************************************)
EXTENDS Integers, Sequences, FiniteSets, TLC

\* ------------------------------------------------------------------ bounds
\* executeNextAction invocations that may be suspended at their await at once
MaxInflight == 2
\* setTimeout callbacks that may be pending at once
MaxTimers == 2
\* public calls (setBattleData, setPlaying, reset, destroy) in one run
MaxCalls == 4
\* interpolated moves that may be in flight on one Character at once
MaxMoves == 2
\* public calls on the Character driven directly in one run
MaxHeroCalls == 2
\* BattleCharacter instances the arena creates in one run
MaxInstances == 3
\* public calls on the viewer element in one run
MaxViewerCalls == 3
\* the largest arena radius configured
MaxRadius == 2
\* public calls on the arena's tile board in one run
MaxBoardCalls == 3
\* public calls on the block editor in one run
MaxEditorCalls == 3
\* instructions in the body of a program
MaxBody == 2

Slots == 1..MaxInflight

\* ------------------------------------------------------------- value types
Pos(q, r) == [q |-> q, r |-> r]
\* `undefined` for an optional coordinate (action.position, a Map miss)
NoPos == [q |-> -9, r |-> -9]
\* `undefined` for action.target
NoTarget == "none"

\* BattleAction {type, actor, target?, position?, path?}
Action(type, actor, target, position, path) ==
  [type |-> type, actor |-> actor, target |-> target, position |-> position, path |-> path]
NoAction == Action("none", "none", NoTarget, NoPos, <<>>)

MovePath(actor, path) == Action("move", actor, NoTarget, NoPos, path)
MoveTo(actor, position) == Action("move", actor, NoTarget, position, <<>>)
MoveNowhere(actor) == Action("move", actor, NoTarget, NoPos, <<>>)
Attack(actor, target) == Action("attack", actor, target, NoPos, <<>>)
Skill(actor, target) == Action("skill", actor, target, NoPos, <<>>)
Effect(actor) == Action("effect", actor, NoTarget, NoPos, <<>>)
\* a type outside move|attack|skill|effect (untyped JSON input)
Dance(actor) == Action("dance", actor, NoTarget, NoPos, <<>>)

\* participant ids; "c" is a participant whose Character is not in the arena
Ids == {"a", "b", "c"}
ArenaIds == {"a", "b"}

Participants ==
  << [id |-> "a", initialPosition |-> Pos(0, 0)],
     [id |-> "b", initialPosition |-> Pos(2, 0)],
     [id |-> "c", initialPosition |-> Pos(1, 1)] >>

\* battleData === null
NoData == [id |-> 0, participants |-> <<>>, turns |-> <<>>]

\* the battles handed to setBattleData
BattleDatas ==
  { [id |-> 1, participants |-> Participants,
     turns |-> << << MovePath("a", <<Pos(1, 0), Pos(1, 1)>>), Attack("a", "b") >>,
                  << >>,
                  << MoveTo("a", Pos(0, 1)) >> >>],
    [id |-> 2, participants |-> Participants,
     turns |-> << << MoveTo("c", Pos(0, 0)), Dance("a"), MoveNowhere("a") >>,
                  << Effect("a"), Skill("b", "a") >> >>],
    [id |-> 3, participants |-> SubSeq(Participants, 1, 2), turns |-> << >>],
    [id |-> 4, participants |-> Participants, turns |-> << << >>, << >> >>] }

\* -------------------------------------------------------------- characters
AnimationNames == {"idle", "run", "attack", "hit"}

DEFAULT_ANIMATIONS ==
  [n \in AnimationNames |-> [loop |-> n \in {"idle", "run"}]]

\* animatedSprite.onComplete: unset, or the wrapper around the callback of
\* attack()/hit(), which resolves the promise awaited by invocation `owner`
\* (owner 0: the promise is already settled, resolving it again does nothing)
NoCb == [armed |-> FALSE, owner |-> 0]
Cb(owner) == [armed |-> TRUE, owner |-> owner]

\* getFacingDirection(from, to, currentFacing = "right")
getFacingDirection(from, to, currentFacing) ==
  LET dq == to.q - from.q
  IN IF dq > 0 THEN "right" ELSE IF dq < 0 THEN "left" ELSE currentFacing

\* calculateInitialFacing with the two coordinates exchanged
calculateInitialFacing_fromCentre(axialPosition) ==
  getFacingDirection(Pos(0, 0), axialPosition, "right")

\* calculateInitialFacing: face the centre
calculateInitialFacing(axialPosition) ==
  getFacingDirection(axialPosition, Pos(0, 0), "right")

\* A Character that initialize() accepted: spriteConfig.spritesheet is set;
\* either the load failed (sprite = FALSE: no animatedSprite, and no
\* fallbackSprite is ever created) or it succeeded and animationMap.idle
\* names a non-empty animation.  animationMap is the set of logical names
\* mapped to a non-empty animation of the atlas.
NewCharacter(axialPosition, sprite, animationMap) ==
  [axialPosition |-> axialPosition,
   currentFacing |-> calculateInitialFacing(axialPosition),
   currentAnimation |-> "idle",
   sprite |-> sprite,
   animationMap |-> animationMap,
   onComplete |-> NoCb]

\* the sprite configurations the participants are created with
SpriteConfigs ==
  { [sprite |-> TRUE, animationMap |-> AnimationNames],
    [sprite |-> TRUE, animationMap |-> {"idle", "run"}],
    [sprite |-> FALSE, animationMap |-> AnimationNames] }

InitialPosition(id) ==
  LET i == CHOOSE i \in 1..Len(Participants) : Participants[i].id = id
  IN Participants[i].initialPosition

\* BattleArena.getCharacter(id) !== null
InArena(id) == id \in ArenaIds

VARIABLES
  battleData,          \* BattleOrchestrator.battleData
  currentTurnIndex,    \* BattleOrchestrator.currentTurnIndex
  currentActionIndex,  \* BattleOrchestrator.currentActionIndex
  isPlaying,           \* BattleOrchestrator.isPlaying
  isPaused,            \* BattleOrchestrator.isPaused
  characterPositions,  \* BattleOrchestrator.characterPositions (Map id -> coords)
  characters,          \* BattleArena.characters (Map id -> BattleCharacter)
  inflight,            \* executeNextAction invocations suspended at their await
  timers,              \* pending setTimeout(() => this.executeNextAction(), 100)
  dispatched,          \* history: cursors handed to executeAction since the
                       \* last reset()/setBattleData()
  calls,               \* history: number of public calls made so far
  hero,                \* a BattleCharacter driven directly through its public
                       \* operations: its fields, its animate loops in flight
  arena,               \* BattleArena: characters (Map), charactersContainer and
                       \* the BattleCharacter instances it created
  board,               \* BattleArena: config, tiles, tilesById, terrainMap,
                       \* allTextures, the sprites of tilesContainer, the
                       \* initialize/reinitialize calls suspended in loadAssets
  editor,              \* BattleBlocks: the Blockly workspace and its top blocks,
                       \* the value of the latest getProgram()
  viewer               \* BattleViewer: the data attribute, battleData, whether
                       \* app/arena/orchestrator exist, renderBattle calls
                       \* suspended at `await this.arena.addCharacter(...)`

vars == << battleData, currentTurnIndex, currentActionIndex, isPlaying, isPaused,
           characterPositions, characters, inflight, timers, dispatched, calls,
           hero, arena, board, editor, viewer >>

\* a suspended invocation: pc is where executeAction(act) stands
\*   "move"     awaiting the last frame of the move to waypoint k
\*   "attack"   awaiting the end of the actor's attack animation
\*   "hit"      awaiting the end of the target's hit animation
\*   "resolved" executeAction returned; the code after the await has not run
\*   "rejected" executeAction threw; the catch block has not run
FreeSlot == [pc |-> "free", act |-> NoAction, k |-> 0, cur |-> <<0, 0>>]

\* the mutable state as one record, threaded through the handlers' code;
\* thr: the renderer throws at the next gotoAndPlay of a commanded animation;
\* ok: the step stayed within MaxInflight
Cur(thr) ==
  [data |-> battleData, ti |-> currentTurnIndex, ai |-> currentActionIndex,
   playing |-> isPlaying, paused |-> isPaused, cache |-> characterPositions,
   chars |-> characters, inflight |-> inflight, timers |-> timers,
   log |-> dispatched, thr |-> thr, threw |-> FALSE, ok |-> TRUE]

Commit(m) ==
  /\ m.ok
  /\ m.timers <= MaxTimers
  /\ battleData' = m.data
  /\ currentTurnIndex' = m.ti
  /\ currentActionIndex' = m.ai
  /\ isPlaying' = m.playing
  /\ isPaused' = m.paused
  /\ characterPositions' = m.cache
  /\ characters' = m.chars
  /\ inflight' = m.inflight
  /\ timers' = m.timers
  /\ dispatched' = m.log
  /\ UNCHANGED <<hero, arena, board, editor, viewer>>

\* ------------------------------------------------------ BattleCharacter code
\* setAnimation(name, onComplete): cb is the onComplete argument (NoCb: none)
setAnimation(m, c, name, cb) ==
  LET ch == m.chars[c]
      named == [ch EXCEPT !.currentAnimation = name]
  IN IF ch.sprite
     THEN IF name \notin ch.animationMap
          THEN \* missing or empty textures: warn and return
               [m EXCEPT !.chars[c] = named]
          ELSE LET config == DEFAULT_ANIMATIONS[name]
                   set == [named EXCEPT !.onComplete =
                             IF ~config.loop /\ cb.armed THEN cb ELSE NoCb]
               IN IF m.thr /\ name # "idle"
                  THEN \* gotoAndPlay(0) throws
                       [m EXCEPT !.chars[c] = set, !.thr = FALSE, !.threw = TRUE]
                  ELSE [m EXCEPT !.chars[c] = set]
     ELSE \* no animatedSprite; fallbackSprite is null
          [m EXCEPT !.chars[c] = named]

\* setFacingDirection(direction)
setFacingDirection(m, c, direction) ==
  IF m.chars[c].currentFacing = direction THEN m
  ELSE [m EXCEPT !.chars[c].currentFacing = direction]

\* ---------------------------------------------------- suspended invocations
FreeSlots(m) == {s \in Slots : m.inflight[s].pc = "free"}

\* executeAction(act) of invocation s returned: its promise is resolved
Resolved(m, s) == [m EXCEPT !.inflight[s].pc = "resolved", !.threw = FALSE]

\* executeAction(act) of invocation s threw: its promise is rejected; the
\* callbacks that would have resolved the abandoned animation promise remain
\* on the sprite but settle nothing
Rejected(m, s) ==
  [m EXCEPT !.inflight[s].pc = "rejected", !.threw = FALSE,
            !.chars = [c \in DOMAIN m.chars |->
                         IF m.chars[c].onComplete.armed /\ m.chars[c].onComplete.owner = s
                         THEN [m.chars[c] EXCEPT !.onComplete = Cb(0)]
                         ELSE m.chars[c]]]

Awaiting(m, s, pc, k) == [m EXCEPT !.inflight[s].pc = pc, !.inflight[s].k = k]

\* moveToAxialPosition(target) up to the await of moveToPosition's promise
moveToAxialPosition(m, s, c, target, k) ==
  LET ch == m.chars[c]
      facingDirection == getFacingDirection(ch.axialPosition, target, ch.currentFacing)
      faced == setFacingDirection(m, c, facingDirection)
      run == setAnimation(faced, c, "run", NoCb)
  IN IF run.threw THEN Rejected(run, s) ELSE Awaiting(run, s, "move", k)

\* attack(): new Promise(resolve => setAnimation("attack", ...))
attack(m, s, c) ==
  LET a == setAnimation(m, c, "attack", Cb(s))
  IN IF a.threw THEN Rejected(a, s) ELSE Awaiting(a, s, "attack", 0)

\* hit(): new Promise(resolve => setAnimation("hit", ...))
hit(m, s, c) ==
  LET h == setAnimation(m, c, "hit", Cb(s))
  IN IF h.threw THEN Rejected(h, s) ELSE Awaiting(h, s, "hit", 0)

\* --------------------------------------------------- BattleOrchestrator code
cacheGet(m, id) == IF id \in DOMAIN m.cache THEN m.cache[id] ELSE NoPos

\* the waypoint a move is heading to at step k
MoveTarget(act, k) == IF Len(act.path) > 0 THEN act.path[k] ELSE act.position

executeMoveAction(m, s, act) ==
  IF Len(act.path) > 0
  THEN moveToAxialPosition(m, s, act.actor, act.path[1], 1)
  ELSE IF act.position # NoPos
       THEN moveToAxialPosition(m, s, act.actor, act.position, 1)
       ELSE Resolved(m, s)

\* facing resolution shared by executeAttackAction and executeSkillAction
faceTarget(m, act) ==
  IF act.target # NoTarget
  THEN LET attackerPosition == cacheGet(m, act.actor)
           targetPosition == cacheGet(m, act.target)
       IN IF attackerPosition # NoPos /\ targetPosition # NoPos
          THEN setFacingDirection(m, act.actor,
                 getFacingDirection(attackerPosition, targetPosition, "right"))
          ELSE m
  ELSE m

\* executeAttackAction up to `await character.attack()`
executeAttackAction(m, s, act) == attack(faceTarget(m, act), s, act.actor)

\* executeSkillAction up to `await character.attack()`
executeSkillAction(m, s, act) == attack(faceTarget(m, act), s, act.actor)

\* executeAttackAction after `await character.attack()`
afterAttack(m, s) ==
  LET act == m.inflight[s].act
  IN IF act.type = "attack" /\ act.target # NoTarget /\ InArena(act.target)
     THEN hit(m, s, act.target)
     ELSE Resolved(m, s)

\* executeAction whose switch falls through to the attack case for a type
\* it does not know
executeAction_unknownAsAttack(m, s, act) ==
  IF ~InArena(act.actor) THEN Resolved(m, s)
  ELSE CASE act.type = "move" -> executeMoveAction(m, s, act)
         [] act.type = "skill" -> executeSkillAction(m, s, act)
         [] act.type = "effect" -> Resolved(m, s)
         [] OTHER -> executeAttackAction(m, s, act)

executeAction(m, s, act) ==
  IF ~InArena(act.actor) THEN Resolved(m, s)
  ELSE CASE act.type = "move" -> executeMoveAction(m, s, act)
         [] act.type = "attack" -> executeAttackAction(m, s, act)
         [] act.type = "skill" -> executeSkillAction(m, s, act)
         [] act.type = "effect" -> Resolved(m, s)
         [] OTHER -> Resolved(m, s)

RECURSIVE executeNextAction(_)

\* executeNextAction below its first guard: fetch the turn and the action
drain(m) ==
  IF m.ti >= Len(m.data.turns) THEN m
  ELSE LET currentTurn == m.data.turns[m.ti + 1]
       IN IF m.ai >= Len(currentTurn)
          THEN LET next == [m EXCEPT !.ti = m.ti + 1, !.ai = 0]
               IN IF next.ti < Len(m.data.turns)
                  THEN executeNextAction(next)
                  ELSE [next EXCEPT !.playing = FALSE]
          ELSE IF FreeSlots(m) = {} THEN [m EXCEPT !.ok = FALSE]
          ELSE LET currentAction == currentTurn[m.ai + 1]
                   s == CHOOSE s \in FreeSlots(m) : \A t \in FreeSlots(m) : s <= t
                   called == [m EXCEPT
                                !.inflight[s] = [pc |-> "called", act |-> currentAction,
                                                 k |-> 0, cur |-> <<m.ti, m.ai>>],
                                !.log = Append(@, <<m.ti, m.ai>>)]
               IN executeAction(called, s, currentAction)

\* executeNextAction without the isPlaying / isPaused guard
executeNextAction_noGuard(m) ==
  IF m.data = NoData THEN m ELSE drain(m)

executeNextAction(m) ==
  IF m.data = NoData \/ ~m.playing \/ m.paused THEN m ELSE drain(m)

\* the continuation with currentActionIndex += 2
afterAction_skipsOne(m, s) ==
  LET advanced == [m EXCEPT !.inflight[s] = FreeSlot, !.ai = m.ai + 2]
  IN IF advanced.playing /\ ~advanced.paused
     THEN [advanced EXCEPT !.timers = @ + 1]
     ELSE advanced

\* the continuation without the setTimeout
afterAction_noTimer(m, s) ==
  [m EXCEPT !.inflight[s] = FreeSlot, !.ai = m.ai + 1]

\* executeNextAction after `await this.executeAction(currentAction)` returned
afterAction(m, s) ==
  LET advanced == [m EXCEPT !.inflight[s] = FreeSlot, !.ai = m.ai + 1]
  IN IF advanced.playing /\ ~advanced.paused
     THEN [advanced EXCEPT !.timers = @ + 1]
     ELSE advanced

\* the catch block without currentActionIndex++
catchAction_noAdvance(m, s) ==
  executeNextAction([m EXCEPT !.inflight[s] = FreeSlot])

\* executeNextAction's catch block
catchAction(m, s) ==
  executeNextAction([m EXCEPT !.inflight[s] = FreeSlot, !.ai = m.ai + 1])

reset(m) ==
  [m EXCEPT !.ti = 0, !.ai = 0, !.playing = FALSE, !.paused = FALSE, !.log = <<>>]

seedPositions(data) ==
  [id \in Ids |->
     IF \E i \in 1..Len(data.participants) : data.participants[i].id = id
     THEN LET i == CHOOSE i \in 1..Len(data.participants) : data.participants[i].id = id
          IN data.participants[i].initialPosition
     ELSE NoPos]

setBattleData(m, data) ==
  reset([m EXCEPT !.data = data, !.cache = seedPositions(data)])

isExecuting(m) == m.ti < Len(m.data.turns) /\ m.playing

setPlaying(m, playing) ==
  IF m.data = NoData THEN m
  ELSE LET wasExecuting == isExecuting(m)
           flagged == [m EXCEPT !.playing = playing, !.paused = ~playing]
       IN IF playing /\ ~wasExecuting THEN executeNextAction(flagged) ELSE flagged

\* destroy() that keeps the battle data
destroy_keepsData(m) == [m EXCEPT !.playing = FALSE, !.paused = TRUE]

destroy(m) == [m EXCEPT !.playing = FALSE, !.paused = TRUE, !.data = NoData]

\* getTotalTurns / isFinished
getTotalTurns == Len(battleData.turns)
isFinished == currentTurnIndex >= getTotalTurns

\* sum of turns[i].actions.length over the first n turns
RECURSIVE SumActions(_, _)
SumActions(turns, n) ==
  IF n = 0 THEN 0 ELSE SumActions(turns, n - 1) + Len(turns[n])

\* a JavaScript number: NaN, or the fraction num/den
NaN == [nan |-> TRUE, num |-> 0, den |-> 1]
Num(num, den) == [nan |-> FALSE, num |-> num, den |-> den]

\* getProgress(): Math.min(completedActions / totalActions, 1); x/0 is
\* Infinity for x > 0 and NaN for x = 0, Math.min(NaN, 1) is NaN
getProgress ==
  IF battleData = NoData \/ Len(battleData.turns) = 0 THEN Num(0, 1)
  ELSE LET totalActions == SumActions(battleData.turns, Len(battleData.turns))
           completedActions ==
             SumActions(battleData.turns, currentTurnIndex) + currentActionIndex
       IN IF totalActions = 0
          THEN IF completedActions = 0 THEN NaN ELSE Num(1, 1)
          ELSE IF completedActions >= totalActions THEN Num(1, 1)
               ELSE Num(completedActions, totalActions)

\* ------------------------------------------------------- pixel coordinates
\* a pixel coordinate pair.  x counts quarters of tileSize * sqrt(3) and y
\* counts quarters of tileSize * 3 / 2, so that the hex centres and the
\* points half way between two of them are integers; nan: both components
\* are NaN
Pixel(x, y) == [nan |-> FALSE, x |-> x, y |-> y]
NaNPixel == [nan |-> TRUE, x |-> 0, y |-> 0]

\* viewportWidth / 2 and viewportHeight / 2 in those units
HalfWidth == 40
HalfHeight == 24

\* axialToPixel: x = tileSize * sqrt(3) * (q + r / 2), y = tileSize * 3 / 2 * r
axialToPixel(axialCoords) ==
  Pixel(4 * axialCoords.q + 2 * axialCoords.r, 4 * axialCoords.r)

offsetPixelCoord(pixelCoord) ==
  Pixel(pixelCoord.x + HalfWidth, pixelCoord.y + HalfHeight)

\* the function createPixelCoordinatesFactory returns
getPixelCoordinates(axialCoords) == offsetPixelCoord(axialToPixel(axialCoords))

\* startPosition + (targetPosition - startPosition) * eased for eased =
\* num / den; NaN in, NaN out
Interpolate(startPosition, targetPosition, num, den) ==
  IF startPosition.nan \/ targetPosition.nan THEN NaNPixel
  ELSE Pixel(startPosition.x + ((targetPosition.x - startPosition.x) * num) \div den,
             startPosition.y + ((targetPosition.y - startPosition.y) * num) \div den)

\* ------------------------------------------- a Character driven directly
FullConfig == [sprite |-> TRUE, animationMap |-> AnimationNames]

\* an animate loop of moveToPosition: flying until its last frame; axial is
\* the target of the moveToAxialPosition that started it (NoPos: started by
\* moveToPosition itself), rest the waypoints of moveAlongAxialPath still
\* to come, mid: an intermediate frame has been drawn
NoMove == [pc |-> "free", startPosition |-> Pixel(0, 0), targetPosition |-> Pixel(0, 0),
           axial |-> NoPos, rest |-> <<>>, mid |-> FALSE]

MoveSlots == 1..MaxMoves

\* new BattleCharacter(id, axialPosition, getPixelCoordinates, spriteConfig)
\* after initialize()
NewHero(axialPosition, config) ==
  [char |-> NewCharacter(axialPosition, config.sprite, config.animationMap),
   position |-> getPixelCoordinates(axialPosition),
   moves |-> [i \in MoveSlots |-> NoMove],
   calls |-> 0]

\* ------------------------------------------------------------ BattleArena
\* the ids addCharacter is called with
Roster == {"a", "b"}
Instances == 1..MaxInstances

\* new BattleArena(): no characters.  characters maps an id to the instance
\* stored for it (0: no entry); container is charactersContainer's children;
\* alive the instances constructed and not destroyed; initializing the
\* addCharacter calls suspended at `await character.initialize()`;
\* initialized the instances whose initialize() resolved; drawable the
\* instances that have an animatedSprite
NewArena ==
  [characters |-> [id \in Roster |-> 0],
   container |-> {},
   alive |-> {},
   initialized |-> {},
   initializing |-> {},
   drawable |-> {},
   created |-> 0]

\* ------------------------------------------------------------ BattleViewer
\* getAttribute("data") === null
NoAttr == "(none)"

\* new BattleViewer(): no data attribute, battleData null, no app, arena or
\* orchestrator yet, no renderBattle in flight; failed (history): the ids
\* whose initialize() threw while the current battleData was rendered
\* connected: between connectedCallback and disconnectedCallback; app, arena,
\* orchestrator: the field is not null; pending: the initializePixiApp calls
\* waiting for their timeout, for app.init() and for arena.initialize()
NewViewer ==
  [attr |-> NoAttr,
   battleData |-> NoData,
   ready |-> FALSE,
   renders |-> {},
   failed |-> {},
   calls |-> 0,
   connected |-> FALSE,
   app |-> FALSE,
   arena |-> FALSE,
   orchestrator |-> FALSE,
   pending |-> [timer |-> 0, appInit |-> 0, arenaInit |-> 0]]

\* ------------------------------------------------------ BattleArena tiles
Max(a, b) == IF a >= b THEN a ELSE b
Min(a, b) == IF a <= b THEN a ELSE b

RECURSIVE rowFrom(_, _, _)
\* the inner loop of generateAxialCoordinates: {q, r}, ..., {q, r2}
rowFrom(q, r, r2) ==
  IF r > r2 THEN << >> ELSE << Pos(q, r) >> \o rowFrom(q, r + 1, r2)

RECURSIVE columnsFrom(_, _)
\* the outer loop of generateAxialCoordinates from q on
columnsFrom(q, radius) ==
  IF q > radius THEN << >>
  ELSE LET r1 == Max(-radius, -q - radius)
           r2 == Min(radius, -q + radius)
       IN rowFrom(q, r1, r2) \o columnsFrom(q + 1, radius)

\* generateAxialCoordinates whose inner loop runs over -radius..radius
generateAxialCoordinates_square(radius) ==
  LET RECURSIVE squareFrom(_)
      squareFrom(q) ==
        IF q > radius THEN << >>
        ELSE rowFrom(q, -radius, radius) \o squareFrom(q + 1)
  IN squareFrom(-radius)

generateAxialCoordinates(radius) == columnsFrom(-radius, radius)

\* hashCoord(q, r): `${q},${r}`
hashCoord(q, r) == ToString(q) \o "," \o ToString(r)

\* TerrainDefinition {type, spriteId, properties?}; passable is
\* properties.passable: "false", "true", "unset" (properties without
\* passable) or "noProperties"
Terrain(type, spriteId, passable) ==
  [type |-> type, spriteId |-> spriteId, passable |-> passable]

\* `{}`, also for a config without terrainMap
NoTerrain == [key \in {} |-> Terrain("", "", "")]

\* the terrain maps of the configurations; "5,5" lies outside every radius
TerrainMaps ==
  { NoTerrain,
    ("1,0" :> Terrain("mountain", "hexMountain00.png", "false"))
      @@ ("0,1" :> Terrain("forest", "hexForestPine00.png", "unset"))
      @@ ("5,5" :> Terrain("water", "hexOcean00.png", "false")),
    ("0,0" :> Terrain("grass", "hexPlains00.png", "true"))
      @@ ("1,0" :> Terrain("mountain", "hexMountain00.png", "noProperties")) }

\* the textures of the tile atlas
AtlasTextures == {"hexPlains00.png", "hexMountain00.png"}
DEFAULT_TILE_TEXTURES ==
  [grass |-> "hexPlains00.png", water |-> "hexOcean00.png", mountain |-> "hexMountain00.png"]

Radii == -1..MaxRadius

\* ArenaConfig {radius, tileTextures, terrainMap}; tileTextures is "none"
\* (no texture source), "url" (to load) or "preloaded" (a texture record)
ArenaConfig(radius, tileTextures, terrainMap) ==
  [radius |-> radius, tileTextures |-> tileTextures, terrainMap |-> terrainMap]

Configs ==
  { ArenaConfig(radius, tileTextures, terrainMap) :
      radius \in Radii, tileTextures \in {"none", "url"}, terrainMap \in TerrainMaps }

DefaultConfig == ArenaConfig(1, "none", NoTerrain)

\* Partial<ArenaConfig>: has is the set of fields given
Partial(has, config) == [has |-> has, config |-> config]

\* new BattleArena(app, config): no tile, no terrain, no texture; generated
\* holds the argument and the result of the latest generateAxialCoordinates
\* call; errors counts the console.error calls of loadAssets
NewBoard(config) ==
  [config |-> config,
   tiles |-> [key \in {} |-> 0],
   tilesById |-> << >>,
   terrainMap |-> NoTerrain,
   allTextures |-> {},
   sprites |-> 0,
   loading |-> 0,
   errors |-> 0,
   generated |-> [radius |-> -1, coords |-> << >>],
   calls |-> 0]

\* generateTiles()
generateTiles(b) ==
  LET coords == generateAxialCoordinates(b.config.radius)
      made == [index \in 1..Len(coords) |->
                 [id |-> index - 1, type |-> "grass", position |-> coords[index],
                  pixelCoords |-> getPixelCoordinates(coords[index])]]
      hash(index) == hashCoord(coords[index].q, coords[index].r)
      hashes == {hash(index) : index \in 1..Len(coords)}
  IN [b EXCEPT
        !.tiles = [key \in DOMAIN b.tiles \cup hashes |->
                     IF key \in hashes
                     THEN LET last == CHOOSE index \in 1..Len(coords) :
                                        /\ hash(index) = key
                                        /\ \A other \in 1..Len(coords) :
                                             hash(other) = key => other <= index
                          IN made[last]
                     ELSE b.tiles[key]],
        !.tilesById = @ \o made,
        !.generated = [radius |-> b.config.radius, coords |-> coords]]

\* the texture renderTiles picks for a tile is not null (tileTextureName and
\* tileTextureIndex are not configured)
hasTexture(b, tile) ==
  /\ b.allTextures # {}
  /\ LET terrainKey == hashCoord(tile.position.q, tile.position.r)
     IN IF terrainKey \in DOMAIN b.terrainMap
        THEN b.terrainMap[terrainKey].spriteId \in b.allTextures
        ELSE DEFAULT_TILE_TEXTURES[tile.type] \in b.allTextures

\* renderTiles(): one sprite per tile of tilesById with a texture
renderTiles(b) ==
  [b EXCEPT !.sprites = @ + Cardinality({index \in 1..Len(b.tilesById) :
                                            hasTexture(b, b.tilesById[index])})]

\* initialize()/reinitialize() after `await this.loadAssets()` that stops at
\* a failed load
build_rethrows(b, loaded) ==
  IF loaded
  THEN renderTiles(generateTiles([b EXCEPT !.terrainMap = b.config.terrainMap]))
  ELSE b

\* initialize()/reinitialize() after `await this.loadAssets()`:
\* loadTerrainMap, generateTiles, renderTiles
build(b, loaded) ==
  renderTiles(generateTiles([b EXCEPT !.terrainMap = b.config.terrainMap]))

\* loadAssets() up to its await, then the caller if nothing is to be loaded
loadAssets(b) ==
  LET emptied == [b EXCEPT !.allTextures = {}]
  IN CASE b.config.tileTextures = "none" -> build(emptied, TRUE)
       [] b.config.tileTextures = "preloaded" ->
            build([emptied EXCEPT !.allTextures = AtlasTextures], TRUE)
       [] OTHER -> [emptied EXCEPT !.loading = @ + 1]

\* loadAssets() after `await Promise.all(...)`: merge the textures, or log
\* "Could not load tile textures"; then the caller goes on
afterLoad(b, loaded) ==
  LET settled == [b EXCEPT !.loading = @ - 1,
                           !.allTextures = IF loaded THEN @ \cup AtlasTextures ELSE @,
                           !.errors = IF loaded THEN @ ELSE @ + 1]
  IN build(settled, loaded)

\* clear() that forgets to empty the tile collections
clearTiles_keepsTiles(b) ==
  [b EXCEPT !.sprites = 0, !.terrainMap = NoTerrain, !.allTextures = {}]

\* the tile part of clear()
clearTiles(b) ==
  [b EXCEPT !.tiles = [key \in {} |-> 0],
            !.tilesById = << >>,
            !.sprites = 0,
            !.terrainMap = NoTerrain,
            !.allTextures = {}]

\* updateConfig(newConfig)
updateConfig(b, newConfig) ==
  [b EXCEPT !.config =
     [field \in DOMAIN b.config |->
        IF field \in newConfig.has THEN newConfig.config[field] ELSE b.config[field]]]

\* getTerrainAt(coords): null is NoTerrainAt
NoTerrainAt == Terrain("null", "null", "null")
getTerrainAt(coords) ==
  LET terrainKey == hashCoord(coords.q, coords.r)
  IN IF terrainKey \in DOMAIN board.terrainMap THEN board.terrainMap[terrainKey]
     ELSE NoTerrainAt

\* isPassable that asks for properties.passable to be true
isPassable_truthy(coords) ==
  LET terrain == getTerrainAt(coords)
  IN terrain = NoTerrainAt \/ terrain.passable = "true"

\* isPassable(coords)
isPassable(coords) ==
  LET terrain == getTerrainAt(coords)
  IN terrain = NoTerrainAt \/ terrain.passable # "false"

\* getAllTiles()
getAllTiles == board.tilesById

\* getTileAt(coords): null is NoTile
NoTile == [id |-> -1, type |-> "null", position |-> NoPos, pixelCoords |-> NaNPixel]
getTileAt(coords) ==
  LET hash == hashCoord(coords.q, coords.r)
  IN IF hash \in DOMAIN board.tiles THEN board.tiles[hash] ELSE NoTile

\* ------------------------------------------------------------ BattleBlocks
\* a primitive field value: typeof value and String(value)
Value(kind, text) == [kind |-> kind, text |-> text]
NoFields == [key \in {} |-> Value("", "")]

\* ProgramInstruction {type, ...fields}
Instruction(type, fields) == [type |-> type, fields |-> fields]

\* BattleProgram with one routine "main", no variables
Program(body) ==
  [variables |-> << >>,
   routines |-> << [name |-> "main", args |-> << >>, body |-> body] >>]

\* getProgram() without a workspace
EmptyProgram == [variables |-> << >>, routines |-> << >>]
\* no program
NoProgram == [variables |-> << >>, routines |-> << [name |-> "none"] >>]

\* instructions of the grammar blocks move_toward(x, y) and of the standard
\* blocks text and math_number; "dance" is no block type
Instructions ==
  { Instruction("move_toward", NoFields),
    Instruction("move_toward",
                ("x" :> Value("number", "100")) @@ ("y" :> Value("number", "50"))),
    Instruction("text", "text" :> Value("string", "go")),
    Instruction("math_number", "num" :> Value("number", "7")),
    Instruction("math_number", "num" :> Value("string", "7")),
    Instruction("dance", NoFields) }

RECURSIVE Bodies(_)
\* the instruction sequences of length n
Bodies(n) ==
  IF n = 0 THEN {<< >>}
  ELSE {Append(body, instruction) : body \in Bodies(n - 1), instruction \in Instructions}

Programs == {Program(body) : body \in UNION {Bodies(n) : n \in 0..MaxBody}}

\* String.prototype.toUpperCase / toLowerCase on the field names in use
toUpperCase(key) ==
  CASE key \in {"x", "X"} -> "X"
    [] key \in {"y", "Y"} -> "Y"
    [] key \in {"text", "TEXT"} -> "TEXT"
    [] key \in {"num", "NUM"} -> "NUM"
toLowerCase(key) ==
  CASE key \in {"x", "X"} -> "x"
    [] key \in {"y", "Y"} -> "y"
    [] key \in {"text", "TEXT"} -> "text"
    [] key \in {"num", "NUM"} -> "num"

\* Blockly.Blocks after generateBlocksFromGrammar and the standard blocks:
\* the named fields of a block type with their kind.  A block generated from
\* the grammar has a title label and, per argument, a value input with a
\* label: no named field
GrammarBlocks == {"move_toward", "cast"}
StandardFields ==
  [text |-> ("TEXT" :> "text"), math_number |-> ("NUM" :> "number")]
Defined(type) == type \in GrammarBlocks \cup DOMAIN StandardFields
NamedFields(type) ==
  IF type \in DOMAIN StandardFields THEN StandardFields[type]
  ELSE [name \in {} |-> ""]

\* generateBlockXML(instruction, 50, y): the block element; every field value
\* is primitive, so every key but type becomes <field name=KEY>value</field>
generateBlockXML(instruction, y) ==
  [type |-> instruction.type,
   y |-> y,
   fields |-> [name \in {toUpperCase(key) : key \in DOMAIN instruction.fields} |->
                 LET key == CHOOSE key \in DOMAIN instruction.fields :
                              toUpperCase(key) = name
                 IN instruction.fields[key].text]]

\* deserializeFromProgram(program): the block elements of the XML text
deserializeFromProgram(program) ==
  LET bodies == [r \in 1..Len(program.routines) |-> program.routines[r].body]
      RECURSIVE elements(_, _, _)
      elements(r, i, y) ==
        IF r > Len(bodies) THEN << >>
        ELSE IF i > Len(bodies[r]) THEN elements(r + 1, 1, y)
        ELSE << generateBlockXML(bodies[r][i], y) >> \o elements(r, i + 1, y + 100)
  IN elements(1, 1, 50)

\* a field reads its XML text: a text field keeps it, a number field keeps
\* it when it is a number (0 otherwise)
IsNumber(text) == text \in {"0", "7", "50", "100"}
fromXml(kind, text) ==
  IF kind = "number"
  THEN Value("number", IF IsNumber(text) THEN text ELSE "0")
  ELSE Value("string", text)
\* the value of a field that the XML does not mention
initialValue(kind) == IF kind = "number" THEN Value("number", "0") ELSE Value("string", "")

\* Blockly.Xml.domToBlock: a field element whose name the block does not
\* have is ignored with a warning
domToBlock(element) ==
  [type |-> element.type,
   y |-> element.y,
   fields |-> [name \in DOMAIN NamedFields(element.type) |->
                 IF name \in DOMAIN element.fields
                 THEN fromXml(NamedFields(element.type)[name], element.fields[name])
                 ELSE initialValue(NamedFields(element.type)[name])]]

RECURSIVE domToWorkspace(_, _, _)
\* Blockly.Xml.domToWorkspace(dom, workspace) from the i-th block element on:
\* each block is added at its position (the top blocks are kept in
\* getTopBlocks(true) order, by y); an undefined block type throws and
\* loadXML logs "Failed to load XML"
domToWorkspace(dom, blocks, i) ==
  IF i > Len(dom) \/ ~Defined(dom[i].type) THEN blocks
  ELSE LET block == domToBlock(dom[i])
           above == SelectSeq(blocks, LAMBDA other : other.y <= block.y)
           below == SelectSeq(blocks, LAMBDA other : other.y > block.y)
       IN domToWorkspace(dom, above \o << block >> \o below, i + 1)

\* blockToInstruction(block): type and the named fields under their
\* lower-case names (no block is connected to an input)
blockToInstruction(block) ==
  Instruction(block.type,
              [key \in {toLowerCase(name) : name \in DOMAIN block.fields} |->
                 LET name == CHOOSE name \in DOMAIN block.fields : toLowerCase(name) = key
                 IN block.fields[name]])

\* serializeToProgram(workspace)
serializeToProgram(blocks) ==
  Program([i \in 1..Len(blocks) |-> blockToInstruction(blocks[i])])

\* new BattleBlocks(): no workspace; program is the value of the latest
\* getProgram() (NoProgram: none since the latest loadProgram); source
\* (history) is the program that loadProgram put into the empty workspace
\* grammar is the grammar field (NoGrammar: null) and fetches the URLs of
\* the loadGrammar calls waiting for their response; issued (history) is the
\* source of the latest loadGrammar call and rejected (history) tells that a
\* loadGrammar call was rejected
NoGrammar == "null"
NewEditor ==
  [workspace |-> FALSE,
   blocks |-> << >>,
   program |-> NoProgram,
   source |-> NoProgram,
   calls |-> 0,
   grammar |-> NoGrammar,
   fetches |-> << >>,
   issued |-> NoGrammar,
   rejected |-> FALSE]

\* loadProgram(program)
loadProgram(e, program) ==
  IF ~e.workspace THEN e
  ELSE [e EXCEPT !.blocks = domToWorkspace(deserializeFromProgram(program), @, 1),
                 !.program = NoProgram,
                 !.source = IF e.blocks = << >> THEN program ELSE NoProgram]

\* getProgram()
getProgram(e) ==
  [e EXCEPT !.program = IF e.workspace THEN serializeToProgram(e.blocks)
                        ELSE EmptyProgram]

\* ----------------------------------------------------------------- actions
InitWith(configs) ==
  /\ battleData = NoData
  /\ currentTurnIndex = 0
  /\ currentActionIndex = 0
  /\ isPlaying = FALSE
  /\ isPaused = FALSE
  /\ characterPositions = [id \in Ids |-> NoPos]
  /\ \E ca \in configs, cb \in configs :
       characters = [id \in ArenaIds |->
                       LET cfg == IF id = "a" THEN ca ELSE cb
                       IN NewCharacter(InitialPosition(id), cfg.sprite, cfg.animationMap)]
  /\ inflight = [s \in Slots |-> FreeSlot]
  /\ timers = 0
  /\ dispatched = <<>>
  /\ calls = 0

Init ==
  /\ InitWith(SpriteConfigs)
  /\ hero = NewHero(Pos(0, 0), FullConfig)
  /\ arena = NewArena
  /\ board = NewBoard(DefaultConfig)
  /\ editor = NewEditor
  /\ viewer = NewViewer

\* a public call of the host page
Call == calls < MaxCalls /\ calls' = calls + 1
\* a callback of the event loop
Event == calls' = calls

SetBattleData(d) == Call /\ Commit(setBattleData(Cur(FALSE), d))

SetPlaying(playing, thr) == Call /\ Commit(setPlaying(Cur(thr), playing))

Reset == Call /\ Commit(reset(Cur(FALSE)))

Destroy == Call /\ Commit(destroy(Cur(FALSE)))

\* the inter-action timer fires
TimerFire(thr) ==
  /\ timers > 0
  /\ Event
  /\ Commit(executeNextAction([Cur(thr) EXCEPT !.timers = @ - 1]))

\* the last animation frame of the move step of invocation s: moveToPosition
\* resolves, then moveToAxialPosition, moveAlongAxialPath and
\* executeMoveAction run on
MoveFrameDone(s, thr) ==
  /\ inflight[s].pc = "move"
  /\ Event
  /\ LET m == Cur(thr)
         act == inflight[s].act
         k == inflight[s].k
         c == act.actor
         idle == setAnimation(m, c, "idle", NoCb)
         arrived == [idle EXCEPT !.chars[c].axialPosition = MoveTarget(act, k)]
     IN Commit(IF Len(act.path) > 0 /\ k < Len(act.path)
               THEN moveToAxialPosition(arrived, s, c, act.path[k + 1], k + 1)
               ELSE Resolved([arrived EXCEPT !.cache[c] = MoveTarget(act, k)], s))

\* the renderer ends the one-shot animation of character c and calls
\* animatedSprite.onComplete
AnimationComplete(c, thr) ==
  /\ characters[c].onComplete.armed
  /\ Event
  /\ LET m == Cur(thr)
         owner == characters[c].onComplete.owner
         idle == setAnimation(m, c, "idle", NoCb)
         cleared == [idle EXCEPT !.chars[c].onComplete = NoCb]
     IN Commit(IF owner = 0 THEN cleared
               ELSE IF inflight[owner].pc = "attack" THEN afterAttack(cleared, owner)
               ELSE Resolved(cleared, owner))

\* executeNextAction resumes after its await
Continue(s) ==
  /\ inflight[s].pc = "resolved"
  /\ Event
  /\ Commit(afterAction(Cur(FALSE), s))

\* executeNextAction resumes in its catch block
Catch(s, thr) ==
  /\ inflight[s].pc = "rejected"
  /\ Event
  /\ Commit(catchAction(Cur(thr), s))

Next ==
  \/ \E d \in BattleDatas : SetBattleData(d)
  \/ \E p \in BOOLEAN, thr \in BOOLEAN : SetPlaying(p, thr)
  \/ Reset
  \/ Destroy
  \/ \E thr \in BOOLEAN : TimerFire(thr)
  \/ \E s \in Slots, thr \in BOOLEAN : MoveFrameDone(s, thr)
  \/ \E c \in ArenaIds, thr \in BOOLEAN : AnimationComplete(c, thr)
  \/ \E s \in Slots : Continue(s)
  \/ \E s \in Slots, thr \in BOOLEAN : Catch(s, thr)

Spec == Init /\ [][Next]_vars

\* the callbacks of the event loop
Events ==
  \/ \E thr \in BOOLEAN : TimerFire(thr)
  \/ \E s \in Slots, thr \in BOOLEAN : MoveFrameDone(s, thr)
  \/ \E c \in ArenaIds, thr \in BOOLEAN : AnimationComplete(c, thr)
  \/ \E s \in Slots : Continue(s)
  \/ \E s \in Slots, thr \in BOOLEAN : Catch(s, thr)

\* the first call: setBattleData on a new Orchestrator
Load(d) == calls = 0 /\ SetBattleData(d)
\* the second call: setPlaying(true)
Play(thr) == calls = 1 /\ SetPlaying(TRUE, thr)
\* any later call is setPlaying
PlayPause(p, thr) == calls >= 1 /\ SetPlaying(p, thr)

\* uninterrupted playback: setBattleData, one setPlaying(true), no further call
NextPlay ==
  \/ \E d \in BattleDatas : Load(d)
  \/ \E thr \in BOOLEAN : Play(thr)
  \/ Events

SpecPlay == Init /\ [][NextPlay]_vars

\* one playback, paused and resumed at will
NextPause ==
  \/ \E d \in BattleDatas : Load(d)
  \/ \E p \in BOOLEAN, thr \in BOOLEAN : PlayPause(p, thr)
  \/ Events

SpecPause == Init /\ [][NextPause]_vars

\* uninterrupted playback where every scheduled timer fires, the renderer
\* ends every frame loop and every one-shot animation it was given, and
\* every settled promise runs its continuation
Fairness ==
  /\ WF_vars(\E thr \in BOOLEAN : TimerFire(thr))
  /\ \A s \in Slots : WF_vars(\E thr \in BOOLEAN : MoveFrameDone(s, thr))
  /\ \A c \in ArenaIds : WF_vars(\E thr \in BOOLEAN : AnimationComplete(c, thr))
  /\ \A s \in Slots : WF_vars(Continue(s))
  /\ \A s \in Slots : WF_vars(\E thr \in BOOLEAN : Catch(s, thr))

LiveSpec == Init /\ [][NextPlay]_vars /\ Fairness

\* ------------------------------------------------------- derived quantities
IsPrefix(p, q) == Len(p) <= Len(q) /\ SubSeq(q, 1, Len(p)) = p

\* the cursors of the timeline's actions, in timeline order
RECURSIVE CursorsFrom(_, _, _)
CursorsFrom(turns, t, a) ==
  IF t > Len(turns) THEN <<>>
  ELSE IF a > Len(turns[t]) THEN CursorsFrom(turns, t + 1, 1)
  ELSE << <<t - 1, a - 1>> >> \o CursorsFrom(turns, t, a + 1)

Timeline(data) == CursorsFrom(data.turns, 1, 1)

ActionAt(data, cur) == data.turns[cur[1] + 1][cur[2] + 1]

TotalActions == SumActions(battleData.turns, Len(battleData.turns))

\* the timeline's actions that lie before the cursor
Preceding ==
  Cardinality({i \in 1..Len(Timeline(battleData)) :
                 LET c == Timeline(battleData)[i]
                 IN c[1] < currentTurnIndex
                    \/ (c[1] = currentTurnIndex /\ c[2] < currentActionIndex)})

\* executeAction(act) has been called and its promise is not settled
Unsettled(s) == inflight[s].pc \in {"move", "attack", "hit"}
Busy == {s \in Slots : inflight[s].pc # "free"}
Quiet == Busy = {}

\* this step hands an action to executeAction
Dispatching == Len(dispatched') > Len(dispatched)

\* the character whose one-shot animation invocation s is waiting for
Animated(s) ==
  IF inflight[s].pc = "hit" THEN inflight[s].act.target ELSE inflight[s].act.actor

\* invocation s waits for a one-shot animation the renderer was never given:
\* the character has no sprite, or its animationMap lacks the animation
NeverEnds(s) ==
  /\ inflight[s].pc \in {"attack", "hit"}
  /\ \/ ~characters[Animated(s)].sprite
     \/ inflight[s].pc \notin characters[Animated(s)].animationMap

\* the action cannot be dispatched: no Character for its actor, or a type
\* that is none of move/attack/skill/effect
Undispatchable(act) ==
  ~InArena(act.actor) \/ act.type \notin {"move", "attack", "skill", "effect"}

\* the destination of the last move of character id in the timeline, or its
\* initialPosition when the timeline never moves it
RECURSIVE DestinationAfter(_, _, _, _)
DestinationAfter(data, id, n, pos) ==
  IF n > Len(Timeline(data)) THEN pos
  ELSE LET act == ActionAt(data, Timeline(data)[n])
           moved == act.type = "move" /\ act.actor = id /\ InArena(id)
           to == IF ~moved THEN pos
                 ELSE IF Len(act.path) > 0 THEN act.path[Len(act.path)]
                 ELSE IF act.position # NoPos THEN act.position
                 ELSE pos
       IN DestinationAfter(data, id, n + 1, to)

LastDestination(data, id) == DestinationAfter(data, id, 1, seedPositions(data)[id])

\* ------------------------------------------------------------------ claims

\* C1: at most one action is in flight: the Orchestrator never hands an
\* action to executeAction while a previously dispatched action has not
\* yet resolved or failed.
C1_OneActionInFlight ==
  [][Dispatching => \A s \in Slots : ~Unsettled(s)]_vars

\* C2: uninterrupted playback (setBattleData, one setPlaying(true), no
\* further call) dispatches the actions of the timeline in timeline order,
\* each exactly once and only after the previous one has resolved or
\* failed; empty turns contribute nothing and do not stop playback.
C2_PlaybackOrder ==
  /\ IsPrefix(dispatched, Timeline(battleData))
  /\ Cardinality(Busy) <= 1
  /\ \A s \in Busy :
       /\ dispatched # <<>>
       /\ inflight[s].cur = dispatched[Len(dispatched)]
       /\ inflight[s].act = ActionAt(battleData, inflight[s].cur)
       /\ timers = 0
  /\ timers <= 1
  /\ isFinished => dispatched = Timeline(battleData)

C2_Witness ==
  /\ calls = 2 /\ battleData.id = 1 /\ isFinished /\ ~isPlaying
  /\ dispatched = << <<0, 0>>, <<0, 1>>, <<2, 0>> >>

\* C3: whatever setPlaying(false)/setPlaying(true) calls interleave with a
\* playback, every action of the timeline is dispatched exactly once and in
\* timeline order by the time isFinished() holds.
C3_ResumeExactlyOnce ==
  /\ IsPrefix(dispatched, Timeline(battleData))
  /\ isFinished => dispatched = Timeline(battleData)

\* C4: pause is cooperative: while the Orchestrator is not playing (after
\* setPlaying(false)), no step other than a setPlaying(true) call dispatches
\* an action: not a timer scheduled before the pause, not the completion or
\* the failure of the action in flight; that action still completes and
\* moves the cursor one action on.
C4_PauseIsCooperative ==
  [][(~isPlaying /\ ~(\E thr \in BOOLEAN : SetPlaying(TRUE, thr)))
       => /\ ~Dispatching
          /\ \A s \in Slots :
               (Continue(s) \/ \E thr \in BOOLEAN : Catch(s, thr))
                 => /\ currentActionIndex' = currentActionIndex + 1
                    /\ currentTurnIndex' = currentTurnIndex
                    /\ timers' = timers]_vars

\* paused during the first action: it completed, the cursor is past it and
\* nothing else was dispatched
C4_Witness ==
  /\ calls = 3 /\ battleData.id = 1 /\ isPaused /\ ~isPlaying
  /\ dispatched = << <<0, 0>> >>
  /\ currentTurnIndex = 0 /\ currentActionIndex = 1
  /\ Quiet /\ timers = 0
  /\ characters["a"].axialPosition = Pos(1, 1)

\* the action at the cursor was handed to executeAction in this step
DispatchedAtCursor ==
  /\ dispatched' = Append(dispatched, <<currentTurnIndex', currentActionIndex'>>)
  /\ currentTurnIndex' < Len(battleData'.turns)
  /\ currentActionIndex' < Len(battleData'.turns[currentTurnIndex' + 1])

\* the first cursor of the timeline at or after (t, a), or (turns.length, 0)
CursorFrom(data, t, a) ==
  LET later == {i \in 1..Len(Timeline(data)) :
                  LET c == Timeline(data)[i]
                  IN c[1] > t \/ (c[1] = t /\ c[2] >= a)}
  IN IF later = {} THEN <<Len(data.turns), 0>>
     ELSE Timeline(data)[CHOOSE i \in later : \A j \in later : i <= j]

\* the catch block moved the cursor exactly one action on: to the action
\* after the failed one when the Orchestrator drains on, else by actionIndex++
CursorPastFailure ==
  <<currentTurnIndex', currentActionIndex'>> =
    IF isPlaying /\ ~isPaused /\ currentTurnIndex < Len(battleData.turns)
    THEN CursorFrom(battleData, currentTurnIndex, currentActionIndex + 1)
    ELSE <<currentTurnIndex, currentActionIndex + 1>>

C6_SkippedNotFatal ==
  [][/\ Dispatching =>
          LET cur == dispatched'[Len(dispatched')]
              act == ActionAt(battleData', cur)
          IN Undispatchable(act) =>
               /\ characters' = characters
               /\ characterPositions' = characterPositions
               /\ \E s \in Slots :
                    inflight'[s] = [pc |-> "resolved", act |-> act, k |-> 0, cur |-> cur]
     /\ \A s \in Slots :
          (Continue(s) /\ Undispatchable(inflight[s].act))
            => /\ currentActionIndex' = currentActionIndex + 1
               /\ currentTurnIndex' = currentTurnIndex
               /\ characters' = characters
               /\ characterPositions' = characterPositions
               /\ (isPlaying /\ ~isPaused) => timers' = timers + 1]_vars

\* the three undispatchable actions of battle 2 were passed over and the
\* valid skill after them is in flight
C6_Witness ==
  /\ calls = 2 /\ battleData.id = 2
  /\ dispatched = Timeline(battleData)
  /\ characterPositions = seedPositions(battleData)
  /\ \E s \in Slots : inflight[s].cur = <<1, 1>> /\ inflight[s].pc = "attack"

\* playback is complete
Done == isFinished /\ getProgress = Num(1, 1) /\ ~isPlaying

\* C7: playback terminates: after setPlaying(true) on a timeline with at
\* least one action and no further call, if every timer fires and every
\* character command resolves or rejects, the Orchestrator eventually is
\* finished, with progress 1 and not playing.  (A command on a character
\* without sprite or animation never resolves: the assumption fails there.)
C7_PlaybackTerminates ==
  (calls = 2 /\ TotalActions > 0) ~> (Done \/ \E s \in Slots : NeverEnds(s))

C7_Witness == calls = 2 /\ battleData.id = 1 /\ Done /\ Quiet /\ timers = 0

\* C8: the promise of attack() and hit() always resolves: it is resolved by
\* the sprite's onComplete callback alone, so while an invocation waits for
\* it that callback is armed on the animated character.
C8_AttackHitComplete ==
  \A s \in Slots :
    inflight[s].pc \in {"attack", "hit"} => characters[Animated(s)].onComplete = Cb(s)

\* C9: getProgress() is a number in [0,1]: 0 without battle data or turns,
\* otherwise (actions before the cursor) / (actions of the timeline).
C9_ProgressInUnitInterval ==
  /\ ~getProgress.nan
  /\ getProgress.den > 0
  /\ 0 <= getProgress.num /\ getProgress.num <= getProgress.den
  /\ IF battleData = NoData \/ Len(battleData.turns) = 0
     THEN getProgress.num = 0
     ELSE getProgress.num * TotalActions = Preceding * getProgress.den

\* C10: the position cache tracks the moves: whenever no action is in
\* flight the cache entry of a character equals its getAxialPosition(), and
\* after the whole timeline has played it is the destination of the
\* character's last move, or its initialPosition if it never moved.
C10_CacheTracksMoves ==
  /\ Quiet =>
       \A id \in ArenaIds :
         characterPositions[id] # NoPos
           => characterPositions[id] = characters[id].axialPosition
  /\ (battleData # NoData /\ isFinished /\ Quiet /\ timers = 0) =>
       \A id \in ArenaIds :
         characterPositions[id] # NoPos
           => characterPositions[id] = LastDestination(battleData, id)

\* C11: immediately after setBattleData(data) the cursor is (0,0), the
\* Orchestrator is neither playing nor paused, getProgress() is 0 and the
\* position cache maps exactly the ids of data.participants to their
\* initialPosition.
C11_SetBattleDataInitialState ==
  [][\A d \in BattleDatas :
       SetBattleData(d)
         => /\ currentTurnIndex' = 0 /\ currentActionIndex' = 0
            /\ ~isPlaying' /\ ~isPaused'
            /\ LET progress == getProgress' IN ~progress.nan /\ progress.num = 0
            /\ \A id \in Ids :
                 characterPositions'[id] =
                   IF \E i \in 1..Len(d.participants) : d.participants[i].id = id
                   THEN InitialPosition(id) ELSE NoPos]_vars

\* one battle, played, paused and rewound with reset() at will
ResetLater == calls >= 1 /\ Reset

NextReset ==
  \/ \E d \in BattleDatas : Load(d)
  \/ \E p \in BOOLEAN, thr \in BOOLEAN : PlayPause(p, thr)
  \/ ResetLater
  \/ Events

SpecReset == Init /\ [][NextReset]_vars

\* C12: reset() puts the cursor at (0,0), stops playback and keeps the
\* battle data (getTotalTurns() unchanged); the first action dispatched by a
\* setPlaying(true) that follows it is turns[0].actions[0].
C12_ResetRewinds ==
  [][/\ Reset => /\ currentTurnIndex' = 0 /\ currentActionIndex' = 0
                 /\ ~isPlaying'
                 /\ battleData' = battleData
                 /\ getTotalTurns' = getTotalTurns
     /\ ((\E thr \in BOOLEAN : SetPlaying(TRUE, thr))
           /\ dispatched = <<>> /\ Dispatching)
          => dispatched' = << <<0, 0>> >>]_vars

\* lexicographic order on cursors
LexLeq(c, d) == c[1] < d[1] \/ (c[1] = d[1] /\ c[2] <= d[2])

\* x <= y on the numbers getProgress() returns; NaN compares false with
\* every number, so NaN followed by NaN is no decrease
ProgressLeq(x, y) ==
  IF x.nan \/ y.nan THEN x.nan = y.nan
  ELSE x.num * y.den <= y.num * x.den

\* C13: between a setPlaying(true) and the next reset, setBattleData or
\* destroy, no step moves the cursor back in lexicographic order and no step
\* lowers getProgress().
C13_CursorMonotonic ==
  [][(battleData # NoData /\ battleData' = battleData)
       => /\ LexLeq(<<currentTurnIndex, currentActionIndex>>,
                    <<currentTurnIndex', currentActionIndex'>>)
          /\ ProgressLeq(getProgress, getProgress')]_vars

\* C14: with battle data, the cursor is at turns.length or addresses an
\* existing action: turnIndex < turns.length and
\* actionIndex < turns[turnIndex].actions.length.
C14_CursorValid ==
  battleData # NoData =>
    \/ currentTurnIndex >= Len(battleData.turns)
    \/ currentActionIndex < Len(battleData.turns[currentTurnIndex + 1])

\* C15: destroy() drops the battle data and stops playback; from then until
\* setBattleData is called no step dispatches an action (not setPlaying(true),
\* not a pending timer, not the completion or failure of the action in
\* flight) and the data stays dropped.
C15_DestroyStopsScheduling ==
  [][/\ Destroy => (battleData' = NoData /\ ~isPlaying' /\ isPaused')
     /\ (battleData = NoData /\ ~(\E d \in BattleDatas : SetBattleData(d)))
          => (~Dispatching /\ battleData' = NoData)]_vars

\* destroy() came during the first move of battle 1: the move ran to its
\* last waypoint and its continuation advanced the cursor, nothing followed
C15_Witness ==
  /\ battleData = NoData /\ calls = 3 /\ isPaused /\ ~isPlaying
  /\ dispatched = << <<0, 0>> >>
  /\ characters["a"].axialPosition = Pos(1, 1)
  /\ characterPositions["a"] = Pos(1, 1)
  /\ currentActionIndex = 1 /\ Quiet /\ timers = 0

\* --------------------------------------- BattleCharacter, driven directly
\* duration = 1000, stepDuration = 1000: the default of the move operations
DefaultDuration == 1000
\* the durations the move operations are called with
Durations == {0, DefaultDuration}

HeroTargets == {Pos(1, 0), Pos(-1, 0), Pos(-1, 1), Pos(0, 1)}
HeroPaths == {<< >>, <<Pos(-1, 0), Pos(-1, 1)>>}
HeroPixels == {getPixelCoordinates(Pos(1, 0)), Pixel(1, 1)}

\* setAnimation(name, onComplete) on the Character driven directly
setHeroAnimation(h, name, cb) ==
  LET m == [chars |-> [c \in {"hero"} |-> h.char], thr |-> FALSE, threw |-> FALSE]
  IN [h EXCEPT !.char = setAnimation(m, "hero", name, cb).chars["hero"]]

\* moveToAxialPosition's facing argument with the third parameter dropped
faceDestination_defaultFacing(char, target) ==
  getFacingDirection(char.axialPosition, target, "right")

\* the facing moveToAxialPosition resolves before it moves
faceDestination(char, target) ==
  getFacingDirection(char.axialPosition, target, char.currentFacing)

\* moveToPosition(targetPosition, duration) in move slot i, with the
\* continuation of the moveToAxialPosition that called it (axial # NoPos)
\* when the promise resolves in the call itself.  tick: Date.now() advanced
\* between the two reads; with duration 0, progress is Math.min(0 / 0, 1) =
\* NaN when it did not, and `progress < 1` is false either way
heroMoveToPosition(h, i, targetPosition, duration, tick, axial, rest) ==
  LET run == setHeroAnimation(h, "run", NoCb)
      startPosition == run.position
  IN IF duration = 0
     THEN LET drawn == [run EXCEPT !.position =
                          IF tick THEN Interpolate(startPosition, targetPosition, 1, 1)
                          ELSE NaNPixel]
              idle == setHeroAnimation(drawn, "idle", NoCb)
          IN IF axial # NoPos THEN [idle EXCEPT !.char.axialPosition = axial] ELSE idle
     ELSE [run EXCEPT !.position = Interpolate(startPosition, targetPosition, 0, 1),
                      !.moves[i] = [pc |-> "flying", startPosition |-> startPosition,
                                    targetPosition |-> targetPosition, axial |-> axial,
                                    rest |-> rest, mid |-> FALSE]]

\* moveToAxialPosition(targetAxialPosition, duration)
heroMoveToAxialPosition(h, i, target, duration, tick, rest) ==
  LET faced == [h EXCEPT !.char.currentFacing = faceDestination(h.char, target)]
  IN heroMoveToPosition(faced, i, getPixelCoordinates(target), duration, tick, target, rest)

\* heroLastFrame going on with the waypoint after the next one
heroLastFrame_skipsWaypoint(h, i) ==
  LET mv == h.moves[i]
      drawn == [h EXCEPT !.position = Interpolate(mv.startPosition, mv.targetPosition, 1, 1),
                         !.moves[i] = NoMove]
      idle == setHeroAnimation(drawn, "idle", NoCb)
      arrived == IF mv.axial # NoPos THEN [idle EXCEPT !.char.axialPosition = mv.axial]
                 ELSE idle
  IN IF Len(mv.rest) > 1
     THEN heroMoveToAxialPosition(arrived, i, mv.rest[2], DefaultDuration, FALSE,
                                  Tail(Tail(mv.rest)))
     ELSE arrived

\* the frame of animate() with progress = 1, and what runs on from it:
\* moveToAxialPosition's assignment, moveAlongAxialPath's next waypoint
heroLastFrame(h, i) ==
  LET mv == h.moves[i]
      drawn == [h EXCEPT !.position = Interpolate(mv.startPosition, mv.targetPosition, 1, 1),
                         !.moves[i] = NoMove]
      idle == setHeroAnimation(drawn, "idle", NoCb)
      arrived == IF mv.axial # NoPos THEN [idle EXCEPT !.char.axialPosition = mv.axial]
                 ELSE idle
  IN IF mv.rest # <<>>
     THEN heroMoveToAxialPosition(arrived, i, Head(mv.rest), DefaultDuration, FALSE, Tail(mv.rest))
     ELSE arrived

FreeMoves == {i \in MoveSlots : hero.moves[i].pc = "free"}
Flying == {i \in MoveSlots : hero.moves[i].pc = "flying"}

\* a step of the Character driven directly: the Orchestrator and the arena
\* are not involved
HeroCommit(h) ==
  /\ hero' = h
  /\ UNCHANGED << battleData, currentTurnIndex, currentActionIndex, isPlaying, isPaused,
                  characterPositions, characters, inflight, timers, dispatched, calls,
                  arena, board, editor, viewer >>

\* a public call on the Character
HeroCall(h) ==
  /\ hero.calls < MaxHeroCalls
  /\ HeroCommit([h EXCEPT !.calls = @ + 1])

MoveToAxialPosition(target, duration, tick) ==
  /\ FreeMoves # {}
  /\ duration = 0 \/ ~tick
  /\ HeroCall(heroMoveToAxialPosition(hero, CHOOSE i \in FreeMoves : \A j \in FreeMoves : i <= j,
                                      target, duration, tick, <<>>))

\* moveAlongAxialPath(path): the loop body runs for the first waypoint in the
\* call itself; an empty path runs no iteration
heroMoveAlongAxialPath(h, i, path) ==
  IF path = << >> THEN h
  ELSE heroMoveToAxialPosition(h, i, Head(path), DefaultDuration, FALSE, Tail(path))

MoveAlongAxialPath(path) ==
  /\ FreeMoves # {}
  /\ HeroCall(heroMoveAlongAxialPath(hero, CHOOSE i \in FreeMoves : \A j \in FreeMoves : i <= j,
                                     path))

MoveToPosition(targetPosition, duration, tick) ==
  /\ FreeMoves # {}
  /\ duration = 0 \/ ~tick
  /\ HeroCall(heroMoveToPosition(hero, CHOOSE i \in FreeMoves : \A j \in FreeMoves : i <= j,
                                 targetPosition, duration, tick, NoPos, <<>>))

SetPosition(position) == HeroCall([hero EXCEPT !.position = position])

SetAxialPosition(axialPosition) ==
  HeroCall([hero EXCEPT !.char.axialPosition = axialPosition,
                        !.position = getPixelCoordinates(axialPosition)])

HeroAttack == HeroCall(setHeroAnimation(hero, "attack", Cb(0)))

HeroHit == HeroCall(setHeroAnimation(hero, "hit", Cb(0)))

SetFacingDirection(direction) ==
  HeroCall([hero EXCEPT !.char.currentFacing = direction])

\* a frame of animate() with progress < 1, drawn half way (eased = 1/2)
HeroFrame(i) ==
  /\ hero.moves[i].pc = "flying" /\ ~hero.moves[i].mid
  /\ LET mv == hero.moves[i]
     IN /\ mv.startPosition.nan
           \/ /\ (mv.targetPosition.x - mv.startPosition.x) % 2 = 0
              /\ (mv.targetPosition.y - mv.startPosition.y) % 2 = 0
        /\ HeroCommit([hero EXCEPT
                         !.position = Interpolate(mv.startPosition, mv.targetPosition, 1, 2),
                         !.moves[i].mid = TRUE])

HeroLastFrame(i) ==
  /\ hero.moves[i].pc = "flying"
  /\ HeroCommit(heroLastFrame(hero, i))

\* the renderer ends the one-shot animation: the callback of attack()/hit()
\* sets the idle animation
HeroAnimationComplete ==
  /\ hero.char.onComplete.armed
  /\ HeroCommit([setHeroAnimation(hero, "idle", NoCb) EXCEPT !.char.onComplete = NoCb])

\* the axial positions the Character is created at: left of the centre, in
\* its column, right of it
SpawnPositions == {Pos(-2, 1), Pos(0, 0), Pos(2, -1)}

HeroInit ==
  /\ InitWith({FullConfig})
  /\ \E axialPosition \in SpawnPositions : hero = NewHero(axialPosition, FullConfig)
  /\ arena = NewArena
  /\ board = NewBoard(DefaultConfig)
  /\ editor = NewEditor
  /\ viewer = NewViewer

HeroNext ==
  \/ \E target \in HeroTargets, duration \in Durations, tick \in BOOLEAN :
       MoveToAxialPosition(target, duration, tick)
  \/ \E path \in HeroPaths : MoveAlongAxialPath(path)
  \/ \E targetPosition \in HeroPixels, duration \in Durations, tick \in BOOLEAN :
       MoveToPosition(targetPosition, duration, tick)
  \/ \E position \in HeroPixels : SetPosition(position)
  \/ \E axialPosition \in HeroTargets : SetAxialPosition(axialPosition)
  \/ HeroAttack
  \/ HeroHit
  \/ \E direction \in {"left", "right"} : SetFacingDirection(direction)
  \/ \E i \in MoveSlots : HeroFrame(i)
  \/ \E i \in MoveSlots : HeroLastFrame(i)
  \/ HeroAnimationComplete

SpecCharacter == HeroInit /\ [][HeroNext]_vars

\* ----------------------------------------------------- BattleArena code
\* addCharacter(participant) up to `await character.initialize()`
addCharacter(a, id) ==
  LET character == a.created + 1
  IN [a EXCEPT !.created = character,
               !.alive = @ \cup {character},
               !.initializing = @ \cup {[id |-> id, character |-> character]}]

\* addCharacter after `await character.initialize()` returned; loaded: the
\* spritesheet was loaded (a failed load is logged by loadSpritesheet and
\* createAnimatedSprite returns without a sprite)
afterInitialize(a, call, loaded) ==
  [a EXCEPT !.initializing = @ \ {call},
            !.initialized = @ \cup {call.character},
            !.drawable = IF loaded THEN @ \cup {call.character} ELSE @,
            !.characters[call.id] = call.character,
            !.container = @ \cup {call.character}]

\* removeCharacter(id)
removeCharacter(a, id) ==
  LET character == a.characters[id]
  IN IF character # 0
     THEN [a EXCEPT !.container = @ \ {character},
                    !.alive = @ \ {character},
                    !.characters[id] = 0]
     ELSE a

\* clear(): removeCharacter for every key, then removeChildren()
clear(a) ==
  LET removed == [a EXCEPT
                    !.container = @ \ {a.characters[id] : id \in Roster},
                    !.alive = @ \ {a.characters[id] : id \in Roster},
                    !.characters = [id \in Roster |-> 0]]
  IN [removed EXCEPT !.container = {}]

\* a step of the arena: the Orchestrator and the Character driven directly
\* are not involved
ArenaCommit(a) ==
  /\ arena' = a
  /\ UNCHANGED << battleData, currentTurnIndex, currentActionIndex, isPlaying, isPaused,
                  characterPositions, characters, inflight, timers, dispatched, calls,
                  hero, board, editor, viewer >>

AddCharacter(id) ==
  /\ arena.created < MaxInstances
  /\ ArenaCommit(addCharacter(arena, id))

\* initialize() resolved
InitializeDone(call, loaded) ==
  /\ call \in arena.initializing
  /\ ArenaCommit(afterInitialize(arena, call, loaded))

\* initialize() threw (no spritesheet reference, no idle textures):
\* addCharacter rejects, the instance is neither stored nor destroyed
InitializeFails(call) ==
  /\ call \in arena.initializing
  /\ ArenaCommit([arena EXCEPT !.initializing = @ \ {call}])

RemoveCharacter(id) == ArenaCommit(removeCharacter(arena, id))

\* clear() empties the character map and the tile board
Clear ==
  /\ arena' = clear(arena)
  /\ board' = clearTiles(board)
  /\ UNCHANGED << battleData, currentTurnIndex, currentActionIndex, isPlaying, isPaused,
                  characterPositions, characters, inflight, timers, dispatched, calls,
                  hero, editor, viewer >>

ArenaCalls == [id : Roster, character : Instances]

ArenaNext ==
  \/ \E id \in Roster : AddCharacter(id)
  \/ \E call \in ArenaCalls, loaded \in BOOLEAN : InitializeDone(call, loaded)
  \/ \E call \in ArenaCalls : InitializeFails(call)
  \/ \E id \in Roster : RemoveCharacter(id)
  \/ Clear

ArenaInit ==
  /\ InitWith({FullConfig})
  /\ hero = NewHero(Pos(0, 0), FullConfig)
  /\ arena = NewArena
  /\ board = NewBoard(DefaultConfig)
  /\ editor = NewEditor
  /\ viewer = NewViewer

SpecArena == ArenaInit /\ [][ArenaNext]_vars

\* battles whose attacks and skills meet every sign of the q difference
FacingDatas ==
  { [id |-> 5, participants |-> Participants,
     turns |-> << << MoveTo("a", Pos(2, 1)), Attack("b", "a") >>,
                  << MoveTo("a", Pos(0, 1)), Skill("a", "b"), Skill("b", "a"),
                     Attack("a", "c"), Effect("b") >> >>],
    [id |-> 6, participants |-> Participants,
     turns |-> << << MoveTo("b", Pos(0, 1)), Skill("b", "a"), Attack("a", "b") >> >>] }

LoadFacing(d) == calls = 0 /\ Commit(setBattleData(Cur(FALSE), d)) /\ Call

NextFacing ==
  \/ \E d \in FacingDatas : LoadFacing(d)
  \/ \E thr \in BOOLEAN : Play(thr)
  \/ Events

SpecFacing == Init /\ [][NextFacing]_vars

\* C17: dispatching an attack or skill leaves the actor's facing unchanged
\* when actor and target have the same cached q (or a position is unknown);
\* otherwise the actor faces right if target.q > actor.q and left if
\* target.q < actor.q.
C17_AttackFacingTieBreak ==
  [][Dispatching =>
       LET act == ActionAt(battleData', dispatched'[Len(dispatched')])
           from == characterPositions[act.actor]
           to == IF act.target = NoTarget THEN NoPos ELSE characterPositions[act.target]
           facing == characters[act.actor].currentFacing
       IN (act.type \in {"attack", "skill"} /\ InArena(act.actor))
            => characters'[act.actor].currentFacing =
                 IF from = NoPos \/ to = NoPos THEN facing
                 ELSE IF to.q > from.q THEN "right"
                 ELSE IF to.q < from.q THEN "left"
                 ELSE facing]_vars

\* the facing the claim prescribes for a move from p to target with facing f
FacingAfterMove(p, target, f) ==
  IF target.q > p.q THEN "right" ELSE IF target.q < p.q THEN "left" ELSE f

\* C16: moveToAxialPosition(target) issued at axial position p with facing f
\* leaves the facing right if target.q > p.q, left if target.q < p.q and f if
\* the q coordinates are equal, whatever the r coordinates; the facing is
\* set when the interpolation has not yet left its start position.  The
\* waypoints of moveAlongAxialPath are such moves.
C16_FacingOnMove ==
  [][/\ \A target \in HeroTargets, duration \in Durations, tick \in BOOLEAN :
          MoveToAxialPosition(target, duration, tick)
            => /\ hero'.char.currentFacing =
                    FacingAfterMove(hero.char.axialPosition, target, hero.char.currentFacing)
               /\ duration > 0 =>
                    \E i \in MoveSlots :
                      /\ hero'.moves[i].pc = "flying" /\ ~hero'.moves[i].mid
                      /\ hero'.moves[i].axial = target
                      /\ hero'.moves[i].startPosition = hero.position
                      /\ hero'.position = hero.position
     /\ \A i \in MoveSlots :
          (HeroLastFrame(i) /\ hero.moves[i].rest # <<>>)
            => hero'.char.currentFacing =
                 FacingAfterMove(hero.moves[i].axial, Head(hero.moves[i].rest),
                                 hero.char.currentFacing)]_vars

\* a move along equal q is in flight and the character still faces left
C16_Witness ==
  /\ hero.char.axialPosition = Pos(-1, 0) /\ hero.char.currentFacing = "left"
  /\ hero.char.currentAnimation = "run"
  /\ hero.position = getPixelCoordinates(Pos(-1, 0))
  /\ \E i \in MoveSlots : hero.moves[i].pc = "flying" /\ hero.moves[i].axial = Pos(-1, 1)

\* what the claim prescribes once moveToAxialPosition(target) has resolved
MovedTo(target) ==
  /\ hero'.char.axialPosition = target
  /\ ~hero'.position.nan
  /\ hero'.position = getPixelCoordinates(target)
  /\ hero'.char.currentAnimation = "idle"

\* C18: for every duration >= 0, 0 included, when moveToAxialPosition(target,
\* duration) resolves, getAxialPosition() is target, getPosition() is the
\* pixel coordinate of target with finite components, and the animation is
\* idle.
C18_MovePostState ==
  [][/\ \A target \in HeroTargets, tick \in BOOLEAN :
          MoveToAxialPosition(target, 0, tick) => MovedTo(target)
     /\ \A i \in MoveSlots :
          (HeroLastFrame(i) /\ hero.moves[i].axial # NoPos /\ hero.moves[i].rest = <<>>)
            => MovedTo(hero.moves[i].axial)]_vars

\* C19: whenever no interpolated move is in flight on the Character,
\* getPosition() is the pixel coordinate of getAxialPosition().
C19_PositionSync ==
  Flying = {} => hero.position = getPixelCoordinates(hero.char.axialPosition)

\* the instances stored in the arena's character map
Stored == {arena.characters[id] : id \in Roster} \ {0}

\* the arena's character map holds exactly the instances that were
\* initialised and not destroyed, which are exactly the children of the
\* characters container, no instance under two ids
OneCharacterPerId ==
  /\ arena.alive \cap arena.initialized = Stored
  /\ arena.container = Stored
  /\ \A id \in Roster, other \in Roster :
       (arena.characters[id] # 0 /\ arena.characters[id] = arena.characters[other])
         => id = other

\* C20: after any sequence of addCharacter, removeCharacter and clear calls
\* (addCharacter of a present id and overlapping addCharacter calls
\* included) the Characters created and not destroyed, with their visuals
\* in the characters container, are exactly the entries of the character
\* map, at most one per id; removeCharacter of an absent id changes nothing.
C20_OneCharacterPerId ==
  [][/\ OneCharacterPerId'
     /\ \A id \in Roster :
          (RemoveCharacter(id) /\ arena.characters[id] = 0) => arena' = arena]_vars

\* ------------------------------------------------------ BattleViewer code
\* BattleParticipant {id, initialPosition, spriteConfig}; spritesheet: the
\* spriteConfig has a spritesheet reference
ViewerParticipant(id, initialPosition, spritesheet) ==
  [id |-> id, initialPosition |-> initialPosition, spritesheet |-> spritesheet]

\* the battles handed to the viewer: their turns hold no action, so that
\* playback moves the cursor without commanding a Character
ViewerDatas ==
  { [id |-> 7,
     participants |-> << ViewerParticipant("a", Pos(0, 0), TRUE),
                         ViewerParticipant("b", Pos(2, 0), TRUE) >>,
     turns |-> << << >>, << >> >>],
    [id |-> 8,
     participants |-> << ViewerParticipant("a", Pos(0, 0), FALSE),
                         ViewerParticipant("b", Pos(2, 0), TRUE) >>,
     turns |-> << << >> >>],
    [id |-> 11,
     participants |-> << ViewerParticipant("b", Pos(2, 0), TRUE) >>,
     turns |-> << << >> >>] }

\* JSON.stringify(data), abridged to what tells the battles apart
Stringify(data) ==
  IF data.id = 11
  THEN "{\"participants\":[{\"id\":\"b\",\"spriteConfig\":{\"spritesheet\":\"/b.json\"}}],\"turns\":[{\"actions\":[]}]}"
  ELSE IF data.id = 7
  THEN "{\"participants\":[{\"id\":\"a\",\"spriteConfig\":{\"spritesheet\":\"/a.json\"}},{\"id\":\"b\",\"spriteConfig\":{\"spritesheet\":\"/b.json\"}}],\"turns\":[{\"actions\":[]},{\"actions\":[]}]}"
  ELSE "{\"participants\":[{\"id\":\"a\",\"spriteConfig\":{}},{\"id\":\"b\",\"spriteConfig\":{\"spritesheet\":\"/b.json\"}}],\"turns\":[{\"actions\":[]}]}"

\* the values the data attribute takes (NoAttr: removeAttribute)
DataTexts ==
  {NoAttr, "", "null", "invalid json", "{\"participants\":["}
    \cup {Stringify(data) : data \in ViewerDatas}

\* JSON.parse(text): the value, or threw for a text that is not JSON
JSONparse(text) ==
  IF text = "null" THEN [threw |-> FALSE, value |-> NoData]
  ELSE IF \E data \in ViewerDatas : text = Stringify(data)
  THEN [threw |-> FALSE, value |-> CHOOSE data \in ViewerDatas : text = Stringify(data)]
  ELSE [threw |-> TRUE, value |-> NoData]

\* the viewer with its arena and its orchestrator, threaded through the
\* viewer's code
World == [viewer |-> viewer, arena |-> arena, m |-> Cur(FALSE)]

RECURSIVE removeParticipants(_, _, _)
\* renderBattle's first loop: removeCharacter(participant.id) from the i-th
\* participant on
removeParticipants(a, participants, i) ==
  IF i > Len(participants) THEN a
  ELSE removeParticipants(removeCharacter(a, participants[i].id), participants, i + 1)

\* orchestrator.setBattleData(data) as renderBattle calls it: data is
\* this.battleData at that time; on null the loop over data.participants
\* throws after the assignment and the cache clear, before reset()
orchestratorSetBattleData(m, data) ==
  IF data = NoData
  THEN [m EXCEPT !.data = NoData, !.cache = [id \in Ids |-> NoPos]]
  ELSE setBattleData(m, data)

RECURSIVE addParticipants(_, _, _)
\* renderBattle's second loop from the i-th participant on, up to the next
\* suspension: initialize() of a participant without a spritesheet reference
\* throws, addCharacter and renderBattle reject; otherwise the call is
\* suspended until the load settles; after the last participant
\* orchestrator.setBattleData(this.battleData)
addParticipants(w, participants, i) ==
  IF i > Len(participants)
  THEN [w EXCEPT !.m = orchestratorSetBattleData(w.m, w.viewer.battleData)]
  ELSE LET participant == participants[i]
           added == addCharacter(w.arena, participant.id)
           call == [id |-> participant.id, character |-> added.created]
       IN IF ~participant.spritesheet
          THEN [w EXCEPT !.arena = [added EXCEPT !.initializing = @ \ {call}],
                         !.viewer.failed = @ \cup {participant.id}]
          ELSE [w EXCEPT !.arena = added,
                         !.viewer.renders = @ \cup
                            {[participants |-> participants, i |-> i, call |-> call]}]

\* renderBattle()
renderBattle(w) ==
  IF ~w.viewer.ready \/ w.viewer.battleData = NoData THEN w
  ELSE LET participants == w.viewer.battleData.participants
           removed == removeParticipants(w.arena, participants, 1)
       IN addParticipants([w EXCEPT !.arena = removed], participants, 1)

\* attributeChangedCallback("data", oldValue, newValue)
attributeChangedCallback(w, oldValue, newValue) ==
  IF newValue = oldValue THEN w
  ELSE LET parsed == JSONparse(IF newValue \in {NoAttr, ""} THEN "null" ELSE newValue)
       IN IF parsed.threw
          THEN \* console.error("Invalid battle data:", error)
               w
          ELSE renderBattle([w EXCEPT !.viewer.battleData = parsed.value,
                                      !.viewer.failed = {}])

\* a step of the viewer: the Character driven directly is not involved
ViewerCommit(w) ==
  /\ w.m.ok
  /\ w.m.timers <= MaxTimers
  /\ w.arena.created <= MaxInstances
  /\ viewer' = w.viewer
  /\ arena' = w.arena
  /\ battleData' = w.m.data
  /\ currentTurnIndex' = w.m.ti
  /\ currentActionIndex' = w.m.ai
  /\ isPlaying' = w.m.playing
  /\ isPaused' = w.m.paused
  /\ characterPositions' = w.m.cache
  /\ characters' = w.m.chars
  /\ inflight' = w.m.inflight
  /\ timers' = w.m.timers
  /\ dispatched' = w.m.log
  /\ UNCHANGED <<calls, hero, board, editor>>

\* a public call on the viewer element
ViewerCall == viewer.calls < MaxViewerCalls
Called == [World EXCEPT !.viewer.calls = @ + 1]

\* initializePixiApp after `await this.initializeArena()`: the app, the arena
\* and the orchestrator exist; render the data set in the meantime
ArenaReady ==
  /\ ~viewer.ready
  /\ ViewerCommit(renderBattle([World EXCEPT !.viewer.ready = TRUE,
                                             !.viewer.connected = TRUE,
                                             !.viewer.app = TRUE,
                                             !.viewer.arena = TRUE,
                                             !.viewer.orchestrator = TRUE]))

\* setAttribute("data", newValue) / removeAttribute("data")
AttributeChanged(newValue) ==
  /\ ViewerCall
  /\ ViewerCommit(attributeChangedCallback([Called EXCEPT !.viewer.attr = newValue],
                                           viewer.attr, newValue))

\* viewer.setBattleData(data)
ViewerSetBattleData(data) ==
  /\ ViewerCall
  /\ ViewerCommit(renderBattle([Called EXCEPT !.viewer.battleData = data,
                                              !.viewer.failed = {}]))

\* viewer.setPlaying(playing)
ViewerSetPlaying(playing) ==
  /\ ViewerCall
  /\ ViewerCommit(IF viewer.ready
                  THEN [Called EXCEPT !.m = setPlaying(World.m, playing)]
                  ELSE Called)

\* character.initialize() of a suspended addCharacter resolved: the Character
\* is registered and renderBattle goes on with the next participant
RenderInitialized(render, loaded) ==
  /\ render \in viewer.renders
  /\ LET w == [World EXCEPT !.viewer.renders = @ \ {render},
                            !.arena = afterInitialize(arena, render.call, loaded)]
     IN ViewerCommit(addParticipants(w, render.participants, render.i + 1))

\* character.initialize() of a suspended addCharacter threw (no idle
\* textures): addCharacter and renderBattle reject
RenderRejected(render) ==
  /\ render \in viewer.renders
  /\ ViewerCommit([World EXCEPT !.viewer.renders = @ \ {render},
                                !.viewer.failed = @ \cup {render.call.id},
                                !.arena.initializing = @ \ {render.call}])

Renders ==
  [participants : {data.participants : data \in ViewerDatas},
   i : 1..2,
   call : ArenaCalls]

ViewerNext ==
  \/ ArenaReady
  \/ \E newValue \in DataTexts : AttributeChanged(newValue)
  \/ \E data \in ViewerDatas : ViewerSetBattleData(data)
  \/ \E playing \in BOOLEAN : ViewerSetPlaying(playing)
  \/ \E render \in Renders, loaded \in BOOLEAN : RenderInitialized(render, loaded)
  \/ \E render \in Renders : RenderRejected(render)

ViewerInit ==
  /\ InitWith({FullConfig})
  /\ hero = NewHero(Pos(0, 0), FullConfig)
  /\ arena = NewArena
  /\ board = NewBoard(DefaultConfig)
  /\ editor = NewEditor
  /\ viewer = NewViewer

SpecViewer == ViewerInit /\ [][ViewerNext]_vars

\* every renderBattle call has settled
Rendered == viewer.ready /\ viewer.renders = {}

\* C21: when the viewer has rendered battle data in which the Character
\* initialization of a participant threw, the participants whose
\* initialization did not throw are in the arena and the Orchestrator holds
\* the battle data.
C21_FailureIsLocal ==
  (Rendered /\ viewer.battleData # NoData /\ viewer.failed # {})
    => /\ battleData = viewer.battleData
       /\ \A i \in 1..Len(viewer.battleData.participants) :
            LET participant == viewer.battleData.participants[i]
            IN participant.id \notin viewer.failed
                 => arena.characters[participant.id] # 0

\* C22: a Character whose spritesheet failed to load is not registered: every
\* Character in the arena's character map has an animatedSprite (drawable
\* animation frames).
C22_NoBlankCharacter == Stored \subseteq arena.drawable

\* C23: setting the data attribute to a string that is not valid JSON leaves
\* getBattleData() as it was, adds and removes no character and leaves the
\* Orchestrator's cursor and playing state unchanged.
C23_MalformedDataIgnored ==
  [][\A newValue \in DataTexts \ {NoAttr} :
       (AttributeChanged(newValue) /\ JSONparse(newValue).threw)
         => /\ viewer'.battleData = viewer.battleData
            /\ arena' = arena
            /\ UNCHANGED <<currentTurnIndex, currentActionIndex, isPlaying, isPaused>>]_vars

\* ------------------------------------------------ BattleArena tile board
\* a step of the tile board and the character map
BoardCommit(b, a) ==
  /\ board' = b
  /\ arena' = a
  /\ UNCHANGED << battleData, currentTurnIndex, currentActionIndex, isPlaying, isPaused,
                  characterPositions, characters, inflight, timers, dispatched, calls,
                  hero, editor, viewer >>

\* a public call on the arena
BoardCall == board.calls < MaxBoardCalls
BoardCalled == [board EXCEPT !.calls = @ + 1]

\* arena.initialize()
Initialize ==
  /\ BoardCall
  /\ BoardCommit(loadAssets(BoardCalled), arena)

\* arena.reinitialize(): clear(), then as initialize()
Reinitialize ==
  /\ BoardCall
  /\ BoardCommit(loadAssets(clearTiles(BoardCalled)), clear(arena))

\* arena.updateConfig(newConfig)
UpdateConfig(newConfig) ==
  /\ BoardCall
  /\ BoardCommit(updateConfig(BoardCalled, newConfig), arena)

\* Assets.load of a suspended loadAssets settled
LoadSettled(loaded) ==
  /\ board.loading > 0
  /\ BoardCommit(afterLoad(board, loaded), arena)

\* the configurations handed to updateConfig: one field each
ConfigUpdates ==
  {Partial({"radius"}, ArenaConfig(radius, "none", NoTerrain)) : radius \in Radii}
    \cup {Partial({"tileTextures"}, ArenaConfig(0, tileTextures, NoTerrain)) :
            tileTextures \in {"none", "url", "preloaded"}}
    \cup {Partial({"terrainMap"}, ArenaConfig(0, "none", terrainMap)) :
            terrainMap \in TerrainMaps}

BoardNext ==
  \/ Initialize
  \/ Reinitialize
  \/ \E newConfig \in ConfigUpdates : UpdateConfig(newConfig)
  \/ \E loaded \in BOOLEAN : LoadSettled(loaded)

BoardInit ==
  /\ InitWith({FullConfig})
  /\ hero = NewHero(Pos(0, 0), FullConfig)
  /\ arena = NewArena
  /\ editor = NewEditor
  /\ viewer = NewViewer
  /\ \E config \in Configs : board = NewBoard(config)

SpecBoard == BoardInit /\ [][BoardNext]_vars

Abs(n) == IF n < 0 THEN -n ELSE n

\* hex distance of a coordinate from the origin
HexDistance(coord) == Max(Max(Abs(coord.q), Abs(coord.r)), Abs(coord.q + coord.r))

\* 3*radius^2 + 3*radius + 1 coordinates within a radius >= 0, none below
TileCount(radius) == IF radius < 0 THEN 0 ELSE 3 * radius * radius + 3 * radius + 1

\* the coordinates looked at: one ring more than the largest radius
Window == (-(MaxRadius + 1))..(MaxRadius + 1)

\* C24: generateAxialCoordinates(radius) returns every coordinate with
\* max(|q|, |r|, |q + r|) <= radius exactly once and no other coordinate,
\* 3*radius^2 + 3*radius + 1 of them, in ascending q then ascending r; for a
\* negative radius it returns the empty sequence.
C24_HexagonInOrder ==
  LET radius == board.generated.radius
      coords == board.generated.coords
  IN /\ Len(coords) = TileCount(radius)
     /\ \A index \in 1..Len(coords) :
          coords[index].q \in Window /\ coords[index].r \in Window
     /\ \A q \in Window, r \in Window :
          Cardinality({index \in 1..Len(coords) : coords[index] = Pos(q, r)})
            = IF radius >= 0 /\ HexDistance(Pos(q, r)) <= radius THEN 1 ELSE 0
     /\ \A index \in 1..Len(coords), later \in 1..Len(coords) :
          index < later
            => \/ coords[index].q < coords[later].q
               \/ /\ coords[index].q = coords[later].q
                  /\ coords[index].r < coords[later].r

\* the tiles of the largest radius were generated
C24_Witness ==
  /\ board.generated.radius = MaxRadius
  /\ Len(board.generated.coords) = TileCount(MaxRadius)
  /\ Len(board.tilesById) = TileCount(MaxRadius)

\* the coordinates asked about: inside and outside the tile radius, with
\* and without terrain
Probes == {Pos(0, 0), Pos(1, 0), Pos(0, 1), Pos(-1, 0), Pos(5, 5), Pos(5, 4)}

\* C25: isPassable(coord) is false exactly when the current terrain map has
\* an entry under hashCoord(coord.q, coord.r) whose properties.passable is
\* false; it is true without an entry (outside the radius, before initialize
\* and after clear too) and for passable true or unspecified; getTerrainAt
\* returns the entry or null.
C25_PassableUnlessBlocked ==
  \A coord \in Probes :
    LET key == hashCoord(coord.q, coord.r)
        entry == key \in DOMAIN board.terrainMap
    IN /\ isPassable(coord) = ~(entry /\ board.terrainMap[key].passable = "false")
       /\ getTerrainAt(coord) = IF entry THEN board.terrainMap[key] ELSE NoTerrainAt
       /\ ~entry => isPassable(coord)
       /\ (entry /\ board.terrainMap[key].passable \in {"true", "unset", "noProperties"})
            => isPassable(coord)

\* a built arena with a blocked tile, a tile whose terrain leaves passable
\* unspecified and a blocked coordinate outside the radius
C25_Witness ==
  /\ board.tilesById # << >>
  /\ ~isPassable(Pos(1, 0))
  /\ getTerrainAt(Pos(0, 1)).passable = "unset"
  /\ isPassable(Pos(0, 1))
  /\ ~isPassable(Pos(5, 5))
  /\ isPassable(Pos(5, 4))

\* ------------------------------------------------------ BattleBlocks steps
\* a step of the block editor
EditorCommit(e) ==
  /\ editor' = e
  /\ UNCHANGED << battleData, currentTurnIndex, currentActionIndex, isPlaying, isPaused,
                  characterPositions, characters, inflight, timers, dispatched, calls,
                  hero, arena, board, viewer >>

\* a public call on the editor element
EditorCall == editor.calls < MaxEditorCalls
EditorCalled == [editor EXCEPT !.calls = @ + 1]

\* connectedCallback: the default grammar is loaded and initializeBlockly
\* injects an empty workspace
InitializeBlockly ==
  /\ ~editor.workspace
  /\ EditorCommit([editor EXCEPT !.workspace = TRUE, !.blocks = << >>,
                                 !.source = NoProgram,
                                 !.grammar = "default-grammar.json",
                                 !.issued = "default-grammar.json"])

\* disconnectedCallback: cleanup() disposes of the workspace
Cleanup ==
  /\ editor.workspace
  /\ EditorCall
  /\ EditorCommit([EditorCalled EXCEPT !.workspace = FALSE, !.blocks = << >>,
                                       !.source = NoProgram])

LoadProgram(program) ==
  /\ EditorCall
  /\ EditorCommit(loadProgram(EditorCalled, program))

GetProgram ==
  /\ EditorCall
  /\ EditorCommit(getProgram(EditorCalled))

EditorNext ==
  \/ InitializeBlockly
  \/ Cleanup
  \/ \E program \in Programs : LoadProgram(program)
  \/ GetProgram

EditorInit ==
  /\ InitWith({FullConfig})
  /\ hero = NewHero(Pos(0, 0), FullConfig)
  /\ arena = NewArena
  /\ board = NewBoard(DefaultConfig)
  /\ editor = NewEditor
  /\ viewer = NewViewer

SpecEditor == EditorInit /\ [][EditorNext]_vars

\* C26: loadProgram(p) into an empty workspace followed by getProgram()
\* returns a program equal to p: the same instructions in the same order
\* with the same field names and values.
C26_ProgramRoundTrip ==
  (editor.source # NoProgram /\ editor.program # NoProgram)
    => editor.program = editor.source


\* an arena without tiles and textures whose only build is waiting for its
\* textures
FirstBuild ==
  board.loading = 1 /\ board.tilesById = << >> /\ board.allTextures = {}

\* C27: when loading the configured tile textures rejects during the build
\* of an arena that has no tiles yet, initialize() still runs to its end:
\* the error is logged, the texture table is empty and getAllTiles() holds
\* one tile per coordinate of the configured radius (3*radius^2 + 3*radius
\* + 1 of them for a radius >= 0), in generation order.
C27_TextureFailureTolerated ==
  [][(LoadSettled(FALSE) /\ FirstBuild)
       => /\ board'.loading = 0
          /\ board'.errors = board.errors + 1
          /\ board'.allTextures = {}
          /\ Len(getAllTiles') = TileCount(board.config.radius)
          /\ \A index \in 1..Len(getAllTiles') :
               /\ getAllTiles'[index].id = index - 1
               /\ getAllTiles'[index].position
                    = generateAxialCoordinates(board.config.radius)[index]]_vars

\* the textures of an arena of the largest radius failed to load and its
\* tiles are there
C27_Witness ==
  /\ board.calls = 1
  /\ board.config.tileTextures = "url"
  /\ board.errors = 1
  /\ board.loading = 0
  /\ board.allTextures = {}
  /\ board.config.radius = MaxRadius
  /\ Len(getAllTiles) = TileCount(MaxRadius)
  /\ board.sprites = 0


\* C28: whenever isFinished() holds and no executeNextAction step is pending
\* (no invocation suspended, no timer), the playing flag is false; so
\* setPlaying(true) on a timeline without turns or on a finished timeline
\* does not leave the Orchestrator playing.
C28_FinishedNotPlaying ==
  (isFinished /\ Quiet /\ timers = 0) => ~isPlaying


\* C29: the attack protocol.  For an attack whose actor has a Character:
\* (1) the dispatch step turns the actor toward the target's cached position
\* (when both are cached) and only then starts the attack animation; (3) the
\* target's hit animation starts only in the completion step of the actor's
\* attack animation, and only for a target in the arena; the action resolves
\* from the attack only when there is no such target; (2) an attack animation
\* that was started ends: the invocation waiting for it goes on to the hit or
\* settles.
C29_AttackProtocol ==
  /\ [][Dispatching =>
         LET act == ActionAt(battleData', dispatched'[Len(dispatched')])
             from == characterPositions[act.actor]
             to == IF act.target = NoTarget THEN NoPos ELSE characterPositions[act.target]
         IN (act.type = "attack" /\ InArena(act.actor))
              => /\ (from # NoPos /\ to # NoPos /\ to.q # from.q)
                      => characters'[act.actor].currentFacing =
                           IF to.q > from.q THEN "right" ELSE "left"
                 /\ \E s \in Slots :
                      /\ inflight'[s] # inflight[s]
                      /\ inflight'[s].act = act
                      /\ inflight'[s].pc \in {"attack", "rejected"}]_vars
  /\ [][\A s \in Slots :
          (inflight'[s].act.type = "attack" /\ inflight'[s].pc # inflight[s].pc)
            => /\ inflight'[s].pc = "hit"
                    => /\ inflight[s].pc = "attack"
                       /\ characters[inflight[s].act.actor].onComplete = Cb(s)
                       /\ inflight[s].act.target # NoTarget
                       /\ InArena(inflight[s].act.target)
               /\ (inflight'[s].pc = "resolved" /\ inflight[s].pc = "attack")
                    => /\ characters[inflight[s].act.actor].onComplete = Cb(s)
                       /\ \/ inflight[s].act.target = NoTarget
                          \/ ~InArena(inflight[s].act.target)
               /\ inflight'[s].pc = "resolved" => inflight[s].pc \in {"attack", "hit"}]_vars
  /\ \A s \in Slots :
       (inflight[s].act.type = "attack" /\ inflight[s].pc \in {"attack", "hit"})
         ~> (inflight[s].pc \in {"resolved", "rejected", "free"})


\* C30: a skill is carried out like an attack: same facing resolution and
\* attack animation on the actor at dispatch, and when that animation
\* completes the target's hit animation is commanded if the target has a
\* Character in the arena; otherwise the action resolves.
C30_SkillAsAttack ==
  /\ [][Dispatching =>
         LET act == ActionAt(battleData', dispatched'[Len(dispatched')])
             asAttack == [act EXCEPT !.type = "attack"]
         IN (act.type = "skill" /\ InArena(act.actor))
              => \E s \in Slots, thr \in BOOLEAN :
                   LET m == executeAttackAction(Cur(thr), s, asAttack)
                   IN /\ inflight'[s].act = act
                      /\ inflight'[s].pc = m.inflight[s].pc
                      /\ characters'[act.actor] = m.chars[act.actor]]_vars
  /\ [][\A s \in Slots :
          LET act == inflight[s].act
          IN (/\ act.type = "skill"
              /\ inflight[s].pc = "attack"
              /\ inflight'[s].pc # "attack"
              /\ characters[act.actor].onComplete = Cb(s))
               => IF act.target # NoTarget /\ InArena(act.target)
                  THEN inflight'[s].act = act /\ inflight'[s].pc \in {"hit", "rejected"}
                  ELSE inflight'[s].pc = "resolved"]_vars


\* C31: the animation state machine of a Character: getCurrentAnimation()
\* is one of idle, run, attack, hit; it is idle while no move is in flight
\* and no one-shot callback is armed, run while a move is in flight, and
\* attack or hit only while the callback of that one-shot is armed.
C31_AnimationStateMachine ==
  /\ hero.char.currentAnimation \in AnimationNames
  /\ (Flying = {} /\ ~hero.char.onComplete.armed) => hero.char.currentAnimation = "idle"
  /\ Flying # {} => hero.char.currentAnimation = "run"
  /\ hero.char.currentAnimation \in {"attack", "hit"} => hero.char.onComplete.armed


\* C32: moveAlongAxialPath(path) walks the waypoints in order: the call
\* starts the move to the first waypoint only (an empty path changes nothing);
\* the last frame of the move to a waypoint makes it the axial position and,
\* in that step and not before, starts the move to the next waypoint; after
\* the last waypoint the axial position is that waypoint and nothing of the
\* path is in flight.
C32_PathInOrder ==
  /\ [][\A path \in HeroPaths :
          MoveAlongAxialPath(path)
            => IF path = << >>
               THEN hero' = [hero EXCEPT !.calls = @ + 1]
               ELSE /\ hero'.char.axialPosition = hero.char.axialPosition
                    /\ \E i \in MoveSlots :
                         /\ hero.moves[i].pc = "free"
                         /\ hero'.moves[i].pc = "flying"
                         /\ hero'.moves[i].axial = path[1]
                         /\ hero'.moves[i].rest = Tail(path)
                         /\ \A j \in MoveSlots \ {i} : hero'.moves[j] = hero.moves[j]]_vars
  /\ [][\A i \in MoveSlots :
          (HeroLastFrame(i) /\ hero.moves[i].axial # NoPos)
            => /\ hero'.char.axialPosition = hero.moves[i].axial
               /\ IF hero.moves[i].rest = << >>
                  THEN hero'.moves[i].pc = "free"
                  ELSE /\ hero'.moves[i].pc = "flying"
                       /\ hero'.moves[i].axial = Head(hero.moves[i].rest)
                       /\ hero'.moves[i].rest = Tail(hero.moves[i].rest)]_vars
  /\ [][\A i \in MoveSlots :
          (hero.moves[i].pc = "flying" /\ hero'.moves[i] # hero.moves[i]
             /\ hero'.moves[i].mid = hero.moves[i].mid)
            => HeroLastFrame(i)]_vars

\* one moveAlongAxialPath call: the first waypoint is reached and the move
\* to the second, last one is in flight
C32_Witness ==
  /\ hero.calls = 1
  /\ hero.char.axialPosition = Pos(-1, 0)
  /\ \E i \in MoveSlots :
       /\ hero.moves[i].pc = "flying"
       /\ hero.moves[i].axial = Pos(-1, 1)
       /\ hero.moves[i].rest = << >>


\* the tile set is the hexagon of the current config radius: getTileAt is
\* non-null exactly within the radius and returns the tile of the coordinate;
\* getAllTiles has one tile per coordinate, ids 0..n-1 in generation order
TilesMatchRadius ==
  LET radius == board.config.radius
      coords == generateAxialCoordinates(radius)
  IN /\ \A q \in Window, r \in Window :
          IF HexDistance(Pos(q, r)) <= radius
          THEN getTileAt(Pos(q, r)) # NoTile /\ getTileAt(Pos(q, r)).position = Pos(q, r)
          ELSE getTileAt(Pos(q, r)) = NoTile
     /\ Cardinality(DOMAIN board.tiles) = TileCount(radius)
     /\ Len(getAllTiles) = TileCount(radius)
     /\ \A index \in 1..Len(getAllTiles) :
          /\ getAllTiles[index].id = index - 1
          /\ getAllTiles[index].position = coords[index]
          /\ HexDistance(getAllTiles[index].position) <= radius

C35_StaleCompletionsIgnored ==
  [][(/\ battleData # NoData
      /\ ~isPlaying /\ ~isPaused
      /\ currentTurnIndex = 0 /\ currentActionIndex = 0
      /\ calls' = calls)
       => /\ currentTurnIndex' = 0
          /\ currentActionIndex' = 0
          /\ characterPositions' = characterPositions
          /\ getProgress'.num = 0]_vars


\* ------------------------------------------------ playback, reset, replay
\* the battles replayed: in battle 9 the first move of a ends between its
\* start and its end positions; in battle 10 a attacks b and then moves past it
ReplayDatas ==
  FacingDatas \cup
  { [id |-> 9, participants |-> Participants,
     turns |-> << << MoveTo("a", Pos(1, 0)), Attack("a", "b") >>,
                  << MovePath("a", <<Pos(2, 1), Pos(3, 0)>>) >> >>],
    [id |-> 10, participants |-> Participants,
     turns |-> << << Attack("a", "b"), MoveTo("a", Pos(3, 0)) >> >>] }

LoadReplay(d) == calls = 0 /\ Commit(setBattleData(Cur(FALSE), d)) /\ Call

\* setPlaying(true): the first playback, and the second one after reset()
PlayReplay == calls \in {1, 3} /\ SetPlaying(TRUE, FALSE)

\* reset() once the first playback has finished
ResetFinished == calls = 2 /\ Done /\ Quiet /\ timers = 0 /\ Reset

\* two playbacks of one battle with a reset() between them; the renderer
\* throws nothing and every Character has its sprite and all animations
NextReplay ==
  \/ \E d \in ReplayDatas : LoadReplay(d)
  \/ PlayReplay
  \/ ResetFinished
  \/ TimerFire(FALSE)
  \/ \E s \in Slots : MoveFrameDone(s, FALSE)
  \/ \E c \in ArenaIds : AnimationComplete(c, FALSE)
  \/ \E s \in Slots : Continue(s)

ReplayInit ==
  /\ InitWith({FullConfig})
  /\ hero = NewHero(Pos(0, 0), FullConfig)
  /\ arena = NewArena
  /\ board = NewBoard(DefaultConfig)
  /\ editor = NewEditor
  /\ viewer = NewViewer

SpecReplay == ReplayInit /\ [][NextReplay]_vars

\* invocation s of m run to its resolution: every move frame and every
\* one-shot animation ends
RECURSIVE settle(_, _)
settle(m, s) ==
  LET act == m.inflight[s].act
      k == m.inflight[s].k
      pc == m.inflight[s].pc
  IN CASE pc = "move" ->
            LET c == act.actor
                idle == setAnimation(m, c, "idle", NoCb)
                arrived == [idle EXCEPT !.chars[c].axialPosition = MoveTarget(act, k)]
            IN IF Len(act.path) > 0 /\ k < Len(act.path)
               THEN settle(moveToAxialPosition(arrived, s, c, act.path[k + 1], k + 1), s)
               ELSE Resolved([arrived EXCEPT !.cache[c] = MoveTarget(act, k)], s)
       [] pc = "attack" ->
            LET idle == setAnimation(m, act.actor, "idle", NoCb)
            IN settle(afterAttack([idle EXCEPT !.chars[act.actor].onComplete = NoCb], s), s)
       [] pc = "hit" ->
            LET idle == setAnimation(m, act.target, "idle", NoCb)
            IN Resolved([idle EXCEPT !.chars[act.target].onComplete = NoCb], s)
       [] OTHER -> m

\* m after the first n actions of its timeline were dispatched and resolved
\* one after the other
RECURSIVE PlayedThrough(_, _)
PlayedThrough(m, n) ==
  IF n = 0 THEN m
  ELSE LET before == PlayedThrough(m, n - 1)
           cur == Timeline(m.data)[n]
           act == ActionAt(m.data, cur)
           called == [before EXCEPT !.inflight[1] =
                        [pc |-> "called", act |-> act, k |-> 0, cur |-> cur]]
       IN settle(executeAction(called, 1, act), 1)

\* the first playback of the current battle up to the resolution of its
\* n-th action: from the Characters as created and the cache as seeded
FirstPlayback(n) ==
  PlayedThrough([Cur(FALSE) EXCEPT
                   !.chars = [id \in ArenaIds |->
                                NewCharacter(InitialPosition(id), TRUE, AnimationNames)],
                   !.cache = seedPositions(battleData),
                   !.inflight = [s \in Slots |-> FreeSlot]], n)

\* C36: replay determinism: whenever an action has resolved, in the first
\* playback or in the playback after reset(), the actor's facing and axial
\* position and the position cache are those of the first playback at the
\* resolution of that action.
C36_ReplayDeterminism ==
  \A s \in Slots :
    (inflight[s].pc = "resolved" /\ InArena(inflight[s].act.actor))
      => LET n == CHOOSE n \in 1..Len(Timeline(battleData)) :
                    Timeline(battleData)[n] = inflight[s].cur
             first == FirstPlayback(n)
             actor == inflight[s].act.actor
         IN /\ characters[actor].currentFacing = first.chars[actor].currentFacing
            /\ characters[actor].axialPosition = first.chars[actor].axialPosition
            /\ characterPositions = first.cache


\* C37: the arena matches the current battle: when every renderBattle call
\* has settled without a failed initialization, the Orchestrator holds the
\* viewer's battle data and the Characters shown in the arena are exactly one
\* per participant of that data, each the one registered under its id.
C37_ArenaMatchesBattle ==
  (Rendered /\ viewer.battleData # NoData /\ viewer.failed = {})
    => LET participants == viewer.battleData.participants
           ids == {participants[i].id : i \in 1..Len(participants)}
       IN /\ battleData = viewer.battleData
          /\ \A id \in Roster : arena.characters[id] # 0 <=> id \in ids
          /\ arena.container = Stored


\* -------------------------------------------- BattleViewer connect/disconnect
\* connect and disconnect calls made on the element
MaxConnects == 5

\* renderBattle's guard on app, arena and orchestrator
held(w) ==
  [w EXCEPT !.viewer.ready = w.viewer.app /\ w.viewer.arena /\ w.viewer.orchestrator]

\* initializePixiApp's `if (this.battleData) await this.renderBattle()`
renderIfData(w) ==
  IF w.viewer.battleData # NoData THEN renderBattle(held(w)) ELSE held(w)

\* cleanup(): destroy and drop the orchestrator, the arena and the app that
\* the fields hold
cleanup(w) ==
  held([w EXCEPT !.m = IF w.viewer.orchestrator THEN destroy(w.m) ELSE w.m,
                 !.arena = IF w.viewer.arena THEN clear(w.arena) ELSE w.arena,
                 !.viewer.orchestrator = FALSE,
                 !.viewer.arena = FALSE,
                 !.viewer.app = FALSE])

\* connectedCallback(): setTimeout(() => this.initializePixiApp(), 0)
connectedCallback(w) ==
  [w EXCEPT !.viewer.connected = TRUE, !.viewer.pending.timer = @ + 1]

\* disconnectedCallback(): cleanup()
disconnectedCallback(w) == cleanup([w EXCEPT !.viewer.connected = FALSE])

\* initializePixiApp() up to `await this.app.init(...)`
initializePixiApp(w) ==
  held([w EXCEPT !.viewer.pending.timer = @ - 1,
                 !.viewer.app = TRUE,
                 !.viewer.pending.appInit = @ + 1])

\* initializePixiApp() after app.init() settled: on a rejection the catch
\* block logs; otherwise initializeArena() up to `await this.arena.initialize()`,
\* which returns at once without an app
afterAppInit(w, ok) ==
  LET settled == [w EXCEPT !.viewer.pending.appInit = @ - 1]
  IN IF ~ok THEN held(settled)
     ELSE IF ~settled.viewer.app THEN renderIfData(settled)
     ELSE held([settled EXCEPT !.viewer.arena = TRUE,
                               !.viewer.pending.arenaInit = @ + 1])

\* new BattleOrchestrator(arena)
newOrchestrator(m) ==
  [m EXCEPT !.data = NoData, !.ti = 0, !.ai = 0, !.playing = FALSE, !.paused = FALSE,
            !.cache = [id \in Ids |-> NoPos]]

\* initializeArena() after arena.initialize() settled: the orchestrator is
\* created (on a rejection the catch block logs), then initializePixiApp
\* renders the data
afterArenaInit(w, ok) ==
  LET settled == [w EXCEPT !.viewer.pending.arenaInit = @ - 1]
  IN renderIfData(IF ok
                  THEN [settled EXCEPT !.viewer.orchestrator = TRUE,
                                       !.m = newOrchestrator(settled.m)]
                  ELSE settled)

Connect ==
  /\ ~viewer.connected
  /\ viewer.calls < MaxConnects
  /\ ViewerCommit(connectedCallback(Called))

Disconnect ==
  /\ viewer.connected
  /\ viewer.calls < MaxConnects
  /\ ViewerCommit(disconnectedCallback(Called))

\* the timeout of connectedCallback fires
InitTimer ==
  /\ viewer.pending.timer > 0
  /\ ViewerCommit(initializePixiApp(World))

\* app.init() of a suspended initializePixiApp settled
AppInitDone(ok) ==
  /\ viewer.pending.appInit > 0
  /\ ViewerCommit(afterAppInit(World, ok))

\* arena.initialize() of a suspended initializeArena settled
ArenaInitDone(ok) ==
  /\ viewer.pending.arenaInit > 0
  /\ ViewerCommit(afterArenaInit(World, ok))

LifecycleNext ==
  \/ Connect
  \/ Disconnect
  \/ InitTimer
  \/ \E ok \in BOOLEAN : AppInitDone(ok)
  \/ \E ok \in BOOLEAN : ArenaInitDone(ok)

SpecLifecycle == ViewerInit /\ [][LifecycleNext]_vars

\* C38: disconnect releases everything: while the element is not connected
\* the viewer holds no Application, no arena and no orchestrator.
C38_DisconnectReleases ==
  ~viewer.connected => (~viewer.app /\ ~viewer.arena /\ ~viewer.orchestrator)


\* C39: no duplicate tiles under overlapping rebuilds: once every initialize
\* and reinitialize call has completed (no texture load is pending),
\* getAllTiles() has no two tiles with the same axial coordinate and as many
\* tiles as there are coordinates for which getTileAt is non-null.
C39_NoDuplicateTiles ==
  board.loading = 0
    => /\ \A i, j \in 1..Len(getAllTiles) :
            getAllTiles[i].position = getAllTiles[j].position => i = j
       /\ Len(getAllTiles) =
            Cardinality({coords \in Window \X Window :
                           getTileAt(Pos(coords[1], coords[2])) # NoTile})


\* ------------------------------------------------- BattleBlocks loadGrammar
\* the sources handed to loadGrammar: a grammar object, and two URLs (strings)
\* whose responses are grammars; a grammar is named by its source
GrammarObjects == {"customGrammar"}
GrammarURLs == {"a.json", "b.json"}

\* loadGrammar(source) after `this.grammar = await loadGrammar(source)`: an
\* existing workspace is disposed of and injected again
grammarLoaded(e, source) ==
  [e EXCEPT !.grammar = source,
            !.blocks = IF e.workspace THEN << >> ELSE @,
            !.source = IF e.workspace THEN NoProgram ELSE @]

\* loadGrammar(source): a grammar object is assigned when the call resumes,
\* a string is fetched first
loadGrammar(e, source) ==
  LET called == [e EXCEPT !.issued = source]
  IN IF source \in GrammarURLs
     THEN [called EXCEPT !.fetches = Append(@, source)]
     ELSE grammarLoaded(called, source)

\* loadGrammar(source) when the fetch of its URL settled: a response that is
\* not ok, or a failed fetch, rejects the call before the assignment
afterFetch(e, index, ok) ==
  LET settled == [e EXCEPT !.fetches = SubSeq(@, 1, index - 1)
                                         \o SubSeq(@, index + 1, Len(@))]
  IN IF ok THEN grammarLoaded(settled, e.fetches[index])
     ELSE [settled EXCEPT !.rejected = TRUE]

\* element.loadGrammar(source)
LoadGrammar(source) ==
  /\ EditorCall
  /\ EditorCommit(loadGrammar(EditorCalled, source))

\* the fetch of a suspended loadGrammar call settled
FetchSettled(index, ok) ==
  /\ index \in 1..Len(editor.fetches)
  /\ EditorCommit(afterFetch(editor, index, ok))

GrammarNext ==
  \/ InitializeBlockly
  \/ Cleanup
  \/ \E source \in GrammarObjects \cup GrammarURLs : LoadGrammar(source)
  \/ \E index \in 1..MaxEditorCalls, ok \in BOOLEAN : FetchSettled(index, ok)

SpecGrammar == EditorInit /\ [][GrammarNext]_vars

\* C40: latest grammar wins: once every pending loadGrammar call has
\* resolved (none is waiting and none was rejected), getGrammar() returns
\* the grammar of the most recently issued loadGrammar call, the default
\* load of connectedCallback included.
C40_LatestGrammarWins ==
  (editor.fetches = << >> /\ ~editor.rejected /\ editor.issued # NoGrammar)
    => editor.grammar = editor.issued

====
